---------------------------- MODULE Spec2Model ----------------------------
(***************************************************************************)
(* A model of the NEN-V simulation engine: the synapse unit (Dendritoma),  *)
(* the metabolic unit (Glia), the neuron (NENV) and the Network with its   *)
(* per-tick update.                                                        *)
(*                                                                         *)
(* Numbers.  The program computes in f64.  Here a real x is the integer    *)
(* x * SCALE (three decimals), and every product and quotient is rounded   *)
(* to the nearest unit, ties away from zero.  All decimal constants of the *)
(* program (0.05, 0.1, 0.01, ...) are exact in this representation.        *)
(*                                                                         *)
(* Vectors.  A Vec<f64> of length n is a function with domain 0..n-1, so   *)
(* indices are those of the source.                                        *)
(***************************************************************************)
EXTENDS Integers, Sequences, FiniteSets, TLC

\* ------------------------------------------------------------------ bounds

\* population size of the modelled network (num_neurons of Network::new)
N == 2
\* ticks run by Spec
MaxTick == 6
\* set_alert_level / boost_alert_level / set_novelty_alert_params calls per run
MaxCfgCalls == 2
\* ticks run by SpecAlert, which interleaves the configuration calls
MaxAlertTick == 3
\* number of inputs of the stand-alone neuron of SpecUnit
UnitN == 2
\* direct calls made on the stand-alone neuron per run
MaxUnitOps == 4

\* direct decide_to_fire calls made on the stand-alone neuron
MaxFireOps == 3

\* the largest time passed to a direct decide_to_fire call
MaxFireTime == 7

\* the largest population built by SpecBuild
MaxNeurons == 9

\* ticks run by SpecBuild on a network it has built
MaxBuildTick == 1

\* the largest row and column passed to coords_to_index
MaxCoord == 4

\* ticks run by SpecOps, which interleaves every operation of the interface
MaxOpsTick == 1

\* ticks of the network whose neurons are visited in any order
MaxOrderTick == 3

\* ticks of the network that is given no stimulus
MaxQuietTick == 4

\* ------------------------------------------------------------ fixed point

SCALE == 1000

Abs(x) == IF x < 0 THEN -x ELSE x

Min(a, b) == IF a < b THEN a ELSE b

Max(a, b) == IF a > b THEN a ELSE b

\* f64::clamp(lo, hi)
Clamp(x, lo, hi) == IF x < lo THEN lo ELSE IF x > hi THEN hi ELSE x

\* x / d for d > 0, rounded to nearest, ties away from zero
RDiv(x, d) == IF x >= 0 THEN (2 * x + d) \div (2 * d)
                        ELSE -((2 * (-x) + d) \div (2 * d))

\* a * b on fixed-point values
FMul(a, b) == RDiv(a * b, SCALE)

\* a / b on fixed-point values, b > 0
FDiv(a, b) == RDiv(a * SCALE, b)

\* largest r with r * r <= x
RECURSIVE ISqrtFrom(_, _)
ISqrtFrom(x, r) == IF (r + 1) * (r + 1) > x THEN r ELSE ISqrtFrom(x, r + 1)

RECURSIVE ISqrtBetween(_, _, _)
ISqrtBetween(x, lo, hi) ==
    IF hi - lo <= 1 THEN ISqrtFrom(x, lo)
    ELSE LET mid == (lo + hi) \div 2
         IN  IF mid * mid <= x THEN ISqrtBetween(x, mid, hi)
                               ELSE ISqrtBetween(x, lo, mid)

\* -------------------------------------------------------------- vectors

VLen(v) == Cardinality(DOMAIN v)

\* vec![x; n]
VFill(x, n) == [i \in 0 .. n - 1 |-> x]

\* iter().sum()
RECURSIVE VSumTo(_, _)
VSumTo(v, n) == IF n = 0 THEN 0 ELSE v[n - 1] + VSumTo(v, n - 1)

VSum(v) == VSumTo(v, VLen(v))

\* ------------------------------------------------- Dendritoma (synapse unit)

\* learning_rate: 0.01
learning_rate == 10

\* initial plasticity of every weight: 1.0
initial_plasticity == 1000

\* Dendritoma::new, with the sampled weights given
Dendritoma_new(weights) ==
    [weights |-> weights, plasticity |-> VFill(initial_plasticity, VLen(weights))]

\* the assertion weakened to reject only vectors that are too short
Dendritoma_mismatch_short_only(d, inputs) == VLen(inputs) < VLen(d.weights)

\* the assert_eq! opening integrate and apply_learning
Dendritoma_mismatch(d, inputs) == VLen(inputs) # VLen(d.weights)

\* Dendritoma::integrate, past its assertion: the weighted sum
integrate(d, inputs) ==
    VSum([i \in DOMAIN d.weights |-> FMul(inputs[i], d.weights[i])])

\* phase 1 of apply_learning without the test of the input's sign
hebbian_two_sided(d, inputs) ==
    [i \in DOMAIN d.weights |->
        d.weights[i] + FMul(FMul(learning_rate, d.plasticity[i]), inputs[i])]

\* phase 1 of apply_learning pruning the weights of the inputs that are
\* not positive
hebbian_pruning(d, inputs) ==
    [i \in DOMAIN d.weights |->
        IF inputs[i] > 0
        THEN d.weights[i] + FMul(FMul(learning_rate, d.plasticity[i]), inputs[i])
        ELSE 0]

\* phase 1 of apply_learning: reinforce the weights of positive inputs
hebbian(d, inputs) ==
    [i \in DOMAIN d.weights |->
        IF inputs[i] > 0
        THEN d.weights[i] + FMul(FMul(learning_rate, d.plasticity[i]), inputs[i])
        ELSE d.weights[i]]

\* Dendritoma::weight_norm, and the norm of phase 2 of apply_learning
\* (the squares are summed at full precision and the root is rounded to
\* nearest, so that the norm is exact to half a unit of the fixed point)
weight_norm(weights) ==
    LET sum_sq == VSum([i \in DOMAIN weights |-> weights[i] * weights[i]])
        root == ISqrtBetween(sum_sq, 0, 46000)
    IN  IF sum_sq - root * root > root THEN root + 1 ELSE root

\* phase 2 of apply_learning left out
normalize_skipped(weights) == weights

\* phase 2 of apply_learning: divide by the L2 norm when it is positive
normalize(weights) ==
    LET norm == weight_norm(weights)
    IN  IF norm > 0 THEN [i \in DOMAIN weights |-> FDiv(weights[i], norm)]
                    ELSE weights

\* Dendritoma::apply_learning, past its assertion
apply_learning(d, inputs) ==
    [d EXCEPT !.weights = normalize(hebbian(d, inputs))]

\* ------------------------------------------------- Glia (metabolic unit)

max_energy == 100000

energy_cost_fire == 10000

energy_cost_maintenance == 100

energy_recovery_rate == 2000

\* Glia::new
Glia_new == [energy |-> max_energy, priority |-> SCALE, alert_level |-> 0]

\* modulate without the energy factor
modulate_ignoring_energy(g, integrated_potential) ==
    FMul(integrated_potential, g.priority)

\* Glia::modulate
modulate(g, integrated_potential) ==
    LET energy_factor == Max(FDiv(g.energy, max_energy), 0)
    IN  FMul(FMul(integrated_potential, energy_factor), g.priority)

\* the energy before the clamp, the maintenance cost charged at rest only
energy_before_clamp_rest_maintenance(g, did_fire) ==
    LET base_recovery ==
            FMul(energy_recovery_rate, SCALE - FDiv(g.energy, max_energy))
        alert_boost == FMul(base_recovery, g.alert_level)
    IN  IF did_fire THEN g.energy - energy_cost_fire
        ELSE g.energy + (base_recovery + alert_boost) - energy_cost_maintenance

\* the energy of update_state before the final clamp
energy_before_clamp(g, did_fire) ==
    LET base_recovery ==
            FMul(energy_recovery_rate, SCALE - FDiv(g.energy, max_energy))
        alert_boost == FMul(base_recovery, g.alert_level)
        moved == IF did_fire THEN g.energy - energy_cost_fire
                             ELSE g.energy + (base_recovery + alert_boost)
    IN  moved - energy_cost_maintenance

\* update_state charging nothing for a spike
update_state_free_firing(g, did_fire) ==
    [g EXCEPT !.energy = Clamp(energy_before_clamp(g, FALSE), 0, max_energy)]

\* update_state without its final clamp
update_state_unclamped(g, did_fire) ==
    [g EXCEPT !.energy = energy_before_clamp(g, did_fire)]

\* Glia::update_state
update_state(g, did_fire) ==
    [g EXCEPT !.energy = Clamp(energy_before_clamp(g, did_fire), 0, max_energy)]

\* ------------------------------------------------------- NENV (neuron)

refractory_period == 5

memory_alpha == 100

\* the cap of update_priority: 3.0
max_priority == 3000

\* NENV::new with the last fire time starting at 0 instead of -1
NENV_new_fired_at_zero(id, weights, initial_threshold, neuron_type) ==
    [id |-> id,
     neuron_type |-> neuron_type,
     dendritoma |-> Dendritoma_new(weights),
     glia |-> Glia_new,
     memory_trace |-> VFill(0, VLen(weights)),
     last_fire_time |-> 0,
     threshold |-> initial_threshold,
     is_firing |-> FALSE,
     output_signal |-> 0]

\* NENV::new, with the sampled weights given
NENV_new(id, weights, initial_threshold, neuron_type) ==
    [id |-> id,
     neuron_type |-> neuron_type,
     dendritoma |-> Dendritoma_new(weights),
     glia |-> Glia_new,
     memory_trace |-> VFill(0, VLen(weights)),
     last_fire_time |-> -1,
     threshold |-> initial_threshold,
     is_firing |-> FALSE,
     output_signal |-> 0]

\* the refractory test with a window one tick short
is_in_refractory_short(n, current_time) ==
    IF n.last_fire_time < 0 THEN FALSE
    ELSE (current_time - n.last_fire_time) < refractory_period - 1

\* the refractory test without the never-fired case: the initial -1 is read
\* as a fire time
is_in_refractory_no_sentinel(n, current_time) ==
    (current_time - n.last_fire_time) < refractory_period

\* the refractory test of decide_to_fire
is_in_refractory(n, current_time) ==
    IF n.last_fire_time < 0 THEN FALSE
    ELSE (current_time - n.last_fire_time) < refractory_period

\* decide_to_fire raising the threshold of a neuron that fires
decide_to_fire_raising_threshold(n, modulated_potential, current_time) ==
    IF modulated_potential > n.threshold /\ ~is_in_refractory(n, current_time)
    THEN [n EXCEPT !.is_firing = TRUE,
                   !.last_fire_time = current_time,
                   !.threshold = n.threshold + 1,
                   !.output_signal =
                       IF n.neuron_type = "Excitatory" THEN SCALE ELSE -SCALE]
    ELSE [n EXCEPT !.is_firing = FALSE, !.output_signal = 0]

\* decide_to_fire without the reset of the firing state
decide_to_fire_no_reset(n, modulated_potential, current_time) ==
    IF modulated_potential > n.threshold /\ ~is_in_refractory(n, current_time)
    THEN [n EXCEPT !.is_firing = TRUE,
                   !.last_fire_time = current_time,
                   !.output_signal =
                       IF n.neuron_type = "Excitatory" THEN SCALE ELSE -SCALE]
    ELSE n

\* decide_to_fire with the threshold test made non-strict
decide_to_fire_nonstrict(n, modulated_potential, current_time) ==
    IF modulated_potential >= n.threshold /\ ~is_in_refractory(n, current_time)
    THEN [n EXCEPT !.is_firing = TRUE,
                   !.last_fire_time = current_time,
                   !.output_signal =
                       IF n.neuron_type = "Excitatory" THEN SCALE ELSE -SCALE]
    ELSE [n EXCEPT !.is_firing = FALSE, !.output_signal = 0]

\* NENV::decide_to_fire
decide_to_fire(n, modulated_potential, current_time) ==
    IF modulated_potential > n.threshold /\ ~is_in_refractory(n, current_time)
    THEN [n EXCEPT !.is_firing = TRUE,
                   !.last_fire_time = current_time,
                   !.output_signal =
                       IF n.neuron_type = "Excitatory" THEN SCALE ELSE -SCALE]
    ELSE [n EXCEPT !.is_firing = FALSE, !.output_signal = 0]

\* the assert_eq! opening update_memory and compute_novelty
NENV_mismatch(n, inputs) == VLen(inputs) # VLen(n.memory_trace)

\* update_memory leaving the trace as it is
update_memory_skipped(n, inputs) == n

\* NENV::update_memory, past its assertion
update_memory(n, inputs) ==
    [n EXCEPT !.memory_trace =
        [i \in DOMAIN n.memory_trace |->
            FMul(SCALE - memory_alpha, n.memory_trace[i])
                + FMul(memory_alpha, inputs[i])]]

\* compute_novelty without the absolute value
compute_novelty_signed(n, inputs) ==
    LET total_diff ==
            VSum([i \in DOMAIN inputs |-> inputs[i] - n.memory_trace[i]])
    IN  RDiv(total_diff, VLen(inputs))

\* NENV::compute_novelty, past its assertion
compute_novelty(n, inputs) ==
    LET total_diff ==
            VSum([i \in DOMAIN inputs |-> Abs(inputs[i] - n.memory_trace[i])])
    IN  RDiv(total_diff, VLen(inputs))

\* update_priority adding the novelty onto the previous priority
update_priority_accumulating(n, novelty, sensitivity_factor) ==
    [n EXCEPT !.glia.priority =
        Min(n.glia.priority + FMul(novelty, sensitivity_factor), max_priority)]

\* NENV::update_priority
update_priority(n, novelty, sensitivity_factor) ==
    [n EXCEPT !.glia.priority =
        Min(SCALE + FMul(novelty, sensitivity_factor), max_priority)]

\* ---------------------------------------------------------------- state

VARIABLES
    \* Network
    neurons,                 \* Vec<NENV>, indexed 0 .. n-1
    connectivity_matrix,     \* [i][j] = 1: neuron i receives input from j
    current_time_step,
    grid_width,
    grid_height,
    alert_level,
    current_avg_novelty,
    novelty_alert_threshold,
    alert_sensitivity,
    \* the last call made on the network and what it computed
    last_call,               \* the last call on the network, its arguments
    gathered_inputs,         \* update's local of that name
    outcome,                 \* "ok", or "panic" once an assertion has failed
    fired_at,                \* per neuron, the ticks at which it has fired
    cfg_calls,               \* configuration calls made so far
    \* a stand-alone neuron, driven directly (SpecUnit, SpecGlia)
    unit,
    unit_call,               \* the last direct call: operation, inputs, result
    unit_ops                 \* direct calls made so far

net_vars == <<neurons, connectivity_matrix, current_time_step, grid_width,
              grid_height, alert_level, current_avg_novelty,
              novelty_alert_threshold, alert_sensitivity>>

obs_vars == <<last_call, gathered_inputs, outcome, fired_at, cfg_calls>>

unit_vars == <<unit, unit_call, unit_ops>>

vars == <<net_vars, obs_vars, unit_vars>>

\* ------------------------------------------------------- Network::new

alert_decay_rate == 50

\* novelty_alert_threshold: 0.5
initial_novelty_alert_threshold == 500

\* alert_sensitivity: 0.3
initial_alert_sensitivity == 300

\* (num_neurons as f64).sqrt().ceil()
RECURSIVE CeilSqrtFrom(_, _)
CeilSqrtFrom(n, s) == IF s * s >= n THEN s ELSE CeilSqrtFrom(n, s + 1)

grid_side(num_neurons) == CeilSqrtFrom(num_neurons, 0)

\* the grid with its borders wrapped around
generate_2d_grid_connectivity_wrapping(num_neurons, width) ==
    [i \in 0 .. num_neurons - 1 |->
        [j \in 0 .. num_neurons - 1 |->
            LET row == i \div width
                col == i % width
            IN  IF \E dr \in -1 .. 1, dc \in -1 .. 1 :
                       /\ ~(dr = 0 /\ dc = 0)
                       /\ j = ((row + dr) % width) * width + ((col + dc) % width)
                THEN 1 ELSE 0]]

\* Network::generate_2d_grid_connectivity
generate_2d_grid_connectivity(num_neurons, width) ==
    [i \in 0 .. num_neurons - 1 |->
        [j \in 0 .. num_neurons - 1 |->
            LET row == i \div width
                col == i % width
            IN  IF \E dr \in -1 .. 1, dc \in -1 .. 1 :
                       /\ ~(dr = 0 /\ dc = 0)
                       /\ row + dr >= 0 /\ row + dr < width
                       /\ col + dc >= 0 /\ col + dc < width
                       /\ j = (row + dr) * width + (col + dc)
                THEN 1 ELSE 0]]

\* the fully connected matrix without the self-entries
generate_connectivity_no_self(num_neurons, connectivity_type, width) ==
    IF connectivity_type = "FullyConnected"
    THEN [i \in 0 .. num_neurons - 1 |->
             [j \in 0 .. num_neurons - 1 |-> IF i = j THEN 0 ELSE 1]]
    ELSE generate_2d_grid_connectivity(num_neurons, width)

\* Network::generate_connectivity
generate_connectivity(num_neurons, connectivity_type, width) ==
    IF connectivity_type = "FullyConnected"
    THEN [i \in 0 .. num_neurons - 1 |-> [j \in 0 .. num_neurons - 1 |-> 1]]
    ELSE generate_2d_grid_connectivity(num_neurons, width)

\* the number of inhibitory neurons rounded to nearest instead of down
num_inhibitory_rounded(num_neurons, inhibitory_ratio) ==
    RDiv(num_neurons * inhibitory_ratio, SCALE)

\* (num_neurons as f64 * inhibitory_ratio).floor()
num_inhibitory(num_neurons, inhibitory_ratio) ==
    (num_neurons * inhibitory_ratio) \div SCALE

\* the neurons built by Network::new; weights[i] are neuron i's sampled weights
new_neurons(num_neurons, inhibitory_ratio, initial_threshold, weights) ==
    [i \in 0 .. num_neurons - 1 |->
        NENV_new(i, weights[i], initial_threshold,
                 IF i < num_inhibitory(num_neurons, inhibitory_ratio)
                 THEN "Inhibitory" ELSE "Excitatory")]

\* ---------------------------------------------- Network: one tick (update)

\* the mirroring loop left out: the neurons keep their old copies
propagate_alert_skipped(ns, level) == ns

\* the mirroring loop closing set_alert_level, boost_alert_level and
\* update_alert_level
propagate_alert(ns, level) ==
    [i \in DOMAIN ns |-> [ns[i] EXCEPT !.glia.alert_level = level]]

\* phase 0 without the decay: the level of the previous tick is kept
decayed_alert_skipped(level) == level

\* Network::update_alert_level: the decayed level
decayed_alert(level) == FMul(level, SCALE - alert_decay_rate)

\* boost_alert_level without its cap
boosted_alert_uncapped(level, boost) == level + boost

\* Network::boost_alert_level: the boosted level
boosted_alert(level, boost) == Min(level + boost, SCALE)

\* set_alert_level clamping from above only
clamped_alert_above_only(level) == Min(level, SCALE)

\* Network::set_alert_level: the stored level
clamped_alert(level) == Clamp(level, 0, SCALE)

\* update's snapshot of the outputs of the previous tick
all_neuron_outputs(ns) == [j \in DOMAIN ns |-> ns[j].output_signal]

\* gather_inputs sizing its result by the stimulus, so that a stimulus of the
\* wrong length reaches integrate's assertion
gather_inputs_strict(neuron_idx, all_outputs, external) ==
    [j \in DOMAIN external |->
        (IF j \in DOMAIN neurons /\ connectivity_matrix[neuron_idx][j] = 1
         THEN all_outputs[j] ELSE 0)
        + external[j]]

\* gather_inputs folding the entries beyond the population back onto the
\* first slots
gather_inputs_folding(neuron_idx, all_outputs, external) ==
    [j \in DOMAIN neurons |->
        (IF connectivity_matrix[neuron_idx][j] = 1 THEN all_outputs[j] ELSE 0)
        + (IF j \in DOMAIN external THEN external[j] ELSE 0)
        + (IF j + VLen(neurons) \in DOMAIN external
           THEN external[j + VLen(neurons)] ELSE 0)]

\* gather_inputs adding the stimulus at the neuron's own slot only
gather_inputs_own_slot(neuron_idx, all_outputs, external) ==
    [j \in DOMAIN neurons |->
        (IF connectivity_matrix[neuron_idx][j] = 1 THEN all_outputs[j] ELSE 0)
        + (IF j = neuron_idx /\ j \in DOMAIN external THEN external[j] ELSE 0)]

\* Network::gather_inputs
gather_inputs(neuron_idx, all_outputs, external) ==
    [j \in DOMAIN neurons |->
        (IF connectivity_matrix[neuron_idx][j] = 1 THEN all_outputs[j] ELSE 0)
        + (IF j \in DOMAIN external THEN external[j] ELSE 0)]

\* update, phases 1-2 for one neuron: the modulated potential
modulated_potential(n, inputs) ==
    modulate(n.glia, integrate(n.dendritoma, inputs))

\* phase 4 with the memory trace updated before the novelty is computed
learn_and_update_memory_first(n, inputs) ==
    LET n0 == update_memory(n, inputs)
        novelty == compute_novelty(n0, inputs)
        n1 == update_priority(n0, novelty, SCALE)
        n2 == IF n1.is_firing
              THEN [n1 EXCEPT !.dendritoma = apply_learning(n1.dendritoma, inputs)]
              ELSE n1
    IN  [neuron |-> [n2 EXCEPT !.glia = update_state(n2.glia, n2.is_firing)],
         novelty |-> novelty]

\* phase 4 learning in every tick, whether the neuron fired or not
learn_and_update_always_learning(n, inputs) ==
    LET novelty == compute_novelty(n, inputs)
        n1 == update_priority(n, novelty, SCALE)
        n2 == [n1 EXCEPT !.dendritoma = apply_learning(n1.dendritoma, inputs)]
        n3 == [n2 EXCEPT !.glia = update_state(n2.glia, n2.is_firing)]
    IN  [neuron |-> update_memory(n3, inputs), novelty |-> novelty]

\* update, phase 4 for one neuron whose firing decision is taken
learn_and_update(n, inputs) ==
    LET novelty == compute_novelty(n, inputs)
        n1 == update_priority(n, novelty, SCALE)
        n2 == IF n1.is_firing
              THEN [n1 EXCEPT !.dendritoma = apply_learning(n1.dendritoma, inputs)]
              ELSE n1
        n3 == [n2 EXCEPT !.glia = update_state(n2.glia, n2.is_firing)]
    IN  [neuron |-> update_memory(n3, inputs), novelty |-> novelty]

\* the phases with the priority of the tick's own novelty already applied
\* when the potential is computed
run_phases_priority_first(ns, gathered, tick) ==
    [i \in DOMAIN ns |->
        learn_and_update(
            decide_to_fire(
                ns[i],
                modulated_potential(
                    update_priority(ns[i], compute_novelty(ns[i], gathered[i]),
                                    SCALE),
                    gathered[i]),
                tick),
            gathered[i])]

\* update, from the decayed and mirrored alert level on: the neurons after
\* phases 1-4 and the novelty of each
run_phases(ns, gathered, tick) ==
    [i \in DOMAIN ns |->
        learn_and_update(
            decide_to_fire(ns[i], modulated_potential(ns[i], gathered[i]), tick),
            gathered[i])]

\* the tick counter left as it is
next_time_step_stalled(t) == t

\* self.current_time_step += 1
next_time_step(t) == t + 1

\* Network::update
Update(external) ==
    LET tick == next_time_step(current_time_step)
        level0 == decayed_alert(alert_level)
    IN  \E ns0 \in {propagate_alert(neurons, level0)} :
        \E gathered \in {[i \in DOMAIN ns0 |->
                            gather_inputs(i, all_neuron_outputs(ns0), external)]} :
        /\ outcome = "ok"
        /\ last_call' = [op |-> "update", external_inputs |-> external]
        /\ gathered_inputs' = gathered
        /\ current_time_step' = tick
        /\ IF \E i \in DOMAIN ns0 :
                  Dendritoma_mismatch(ns0[i].dendritoma, gathered[i])
           THEN \* integrate's assertion fails in phase 1-2: the tick is
                \* counted and the alert level decayed, nothing else is done
                /\ outcome' = "panic"
                /\ neurons' = ns0
                /\ alert_level' = level0
                /\ UNCHANGED <<current_avg_novelty, fired_at>>
           ELSE \E done \in {run_phases(ns0, gathered, tick)} :
                LET total_novelty ==
                        VSum([i \in DOMAIN done |-> done[i].novelty])
                    avg == RDiv(total_novelty, VLen(neurons))
                    level1 == IF avg > novelty_alert_threshold
                              THEN boosted_alert(level0,
                                                 FMul(avg, alert_sensitivity))
                              ELSE level0
                IN  /\ outcome' = "ok"
                    /\ neurons' = propagate_alert(
                                      [i \in DOMAIN done |-> done[i].neuron],
                                      level1)
                    /\ alert_level' = level1
                    /\ current_avg_novelty' = avg
                    /\ fired_at' =
                           [i \in DOMAIN done |->
                               IF done[i].neuron.is_firing
                               THEN fired_at[i] \cup {tick} ELSE fired_at[i]]
        /\ UNCHANGED <<connectivity_matrix, grid_width, grid_height,
                       novelty_alert_threshold, alert_sensitivity, cfg_calls>>
        /\ UNCHANGED unit_vars

\* Network::set_alert_level
SetAlertLevel(level) ==
    /\ outcome = "ok"
    /\ cfg_calls < MaxCfgCalls
    /\ alert_level' = clamped_alert(level)
    /\ neurons' = propagate_alert(neurons, clamped_alert(level))
    /\ cfg_calls' = cfg_calls + 1
    /\ UNCHANGED <<connectivity_matrix, current_time_step, grid_width,
                   grid_height, current_avg_novelty, novelty_alert_threshold,
                   alert_sensitivity>>
    /\ last_call' = [op |-> "set_alert_level", level |-> level]
    /\ UNCHANGED <<gathered_inputs, outcome, fired_at>>
    /\ UNCHANGED unit_vars

\* Network::boost_alert_level
BoostAlertLevel(boost) ==
    /\ outcome = "ok"
    /\ cfg_calls < MaxCfgCalls
    /\ alert_level' = boosted_alert(alert_level, boost)
    /\ neurons' = propagate_alert(neurons, boosted_alert(alert_level, boost))
    /\ cfg_calls' = cfg_calls + 1
    /\ UNCHANGED <<connectivity_matrix, current_time_step, grid_width,
                   grid_height, current_avg_novelty, novelty_alert_threshold,
                   alert_sensitivity>>
    /\ last_call' = [op |-> "boost_alert_level", boost |-> boost]
    /\ UNCHANGED <<gathered_inputs, outcome, fired_at>>
    /\ UNCHANGED unit_vars

\* Network::set_novelty_alert_params
SetNoveltyAlertParams(threshold, sensitivity) ==
    /\ outcome = "ok"
    /\ cfg_calls < MaxCfgCalls
    /\ novelty_alert_threshold' = Max(threshold, 0)
    /\ alert_sensitivity' = Clamp(sensitivity, 0, SCALE)
    /\ cfg_calls' = cfg_calls + 1
    /\ UNCHANGED <<neurons, connectivity_matrix, current_time_step, grid_width,
                   grid_height, alert_level, current_avg_novelty>>
    /\ last_call' = [op |-> "set_novelty_alert_params", threshold |-> threshold,
                     sensitivity |-> sensitivity]
    /\ UNCHANGED <<gathered_inputs, outcome, fired_at>>
    /\ UNCHANGED unit_vars

\* ------------------------------------------------------ inputs and Init

ConnectivityTypes == {"FullyConnected", "Grid2D"}

\* inhibitory_ratio: 0.0 and 0.5
InhibitoryRatios == {0, 500}

\* initial_threshold: 0.2, the value of main.rs and the experiments
InitialThresholds == {200}

\* rng.gen_range(0.1..0.3): both ends of the range and its middle
WeightSamples == <<100, 200, 299>>

\* one sampling of all the weights: neuron i's weight j
sampled_weight(k, i, j) == WeightSamples[((i + j + k) % Len(WeightSamples)) + 1]

\* the stimulus strength of the experiments: 2.0
stimulus_strength == 2000

\* stimuli of the right length (silence, one target neuron, every neuron),
\* one entry short and one entry long
Stimuli ==
    { VFill(0, N),
      [j \in 0 .. N - 1 |-> IF j = 0 THEN stimulus_strength ELSE 0],
      VFill(stimulus_strength, N),
      VFill(stimulus_strength, N - 1),
      VFill(stimulus_strength, N + 1) }

\* arguments of set_alert_level: below, inside and above [0, 1]
AlertLevels == {-500, 500, 1500}

\* arguments of boost_alert_level
Boosts == {-500, 400, 2000}

\* arguments of set_novelty_alert_params: those of the integration
\* experiment, and a pair outside the valid domain
NoveltyAlertParams == {<<40, 500>>, <<-1000, 2000>>}

\* Network::new(num_neurons, connectivity_type, inhibitory_ratio,
\* initial_threshold), for any population size,
\* the weights sampled as sampling k
Network_new_of(num_neurons, connectivity_type, inhibitory_ratio, initial_threshold, k) ==
    LET width == IF connectivity_type = "Grid2D" THEN grid_side(num_neurons)
                                                ELSE 0
        weights == [i \in 0 .. num_neurons - 1 |->
                       [j \in 0 .. num_neurons - 1 |-> sampled_weight(k, i, j)]]
    IN  /\ neurons = new_neurons(num_neurons, inhibitory_ratio,
                                 initial_threshold, weights)
        /\ connectivity_matrix =
               generate_connectivity(num_neurons, connectivity_type, width)
        /\ current_time_step = 0
        /\ grid_width = width
        /\ grid_height = width
        /\ alert_level = 0
        /\ current_avg_novelty = 0
        /\ novelty_alert_threshold = initial_novelty_alert_threshold
        /\ alert_sensitivity = initial_alert_sensitivity

\* Network::new for the population size N of the runs
Network_new(connectivity_type, inhibitory_ratio, initial_threshold, k) ==
    Network_new_of(N, connectivity_type, inhibitory_ratio, initial_threshold, k)

InitNetwork ==
    \E connectivity_type \in ConnectivityTypes,
       inhibitory_ratio \in InhibitoryRatios,
       initial_threshold \in InitialThresholds,
       k \in 1 .. Len(WeightSamples) :
        Network_new(connectivity_type, inhibitory_ratio, initial_threshold, k)

\* the stand-alone neuron: NENV::new(0, UnitN, initial_threshold, kind)
Unit_new(initial_threshold, k) ==
    /\ unit = NENV_new(0, [j \in 0 .. UnitN - 1 |-> sampled_weight(k, 0, j)],
                       initial_threshold, "Excitatory")
    /\ unit_call = [op |-> "new"]
    /\ unit_ops = 0

InitObs ==
    /\ last_call = [op |-> "new"]
    /\ gathered_inputs = [i \in 0 .. N - 1 |-> VFill(0, N)]
    /\ outcome = "ok"
    /\ fired_at = [i \in 0 .. N - 1 |-> {}]
    /\ cfg_calls = 0

Init == InitNetwork /\ InitObs /\ Unit_new(200, 1)

\* ------------------------------------------------------- specifications

\* the network driven by update alone
Tick ==
    /\ current_time_step < MaxTick
    /\ \E external \in Stimuli : Update(external)

Next == Tick

Spec == Init /\ [][Next]_vars

\* stimuli of SpecAlert: silence and every neuron stimulated
AlertStimuli == {VFill(0, N), VFill(stimulus_strength, N)}

AlertTick ==
    /\ current_time_step < MaxAlertTick
    /\ \E external \in AlertStimuli : Update(external)

\* the network driven by update and by the configuration calls
NextAlert ==
    \/ AlertTick
    \/ \E level \in AlertLevels : SetAlertLevel(level)
    \/ \E boost \in Boosts : BoostAlertLevel(boost)
    \/ \E p \in NoveltyAlertParams : SetNoveltyAlertParams(p[1], p[2])

SpecAlert == Init /\ [][NextAlert]_vars

\* ------------------------------------------ direct calls on one neuron

\* a direct call leaves the network alone
UnitFrame ==
    /\ UNCHANGED net_vars
    /\ UNCHANGED <<last_call, gathered_inputs, fired_at, cfg_calls>>

\* unit.dendritoma.integrate(inputs)
UnitIntegrate(inputs) ==
    /\ outcome = "ok"
    /\ unit_ops < MaxUnitOps
    /\ unit_ops' = unit_ops + 1
    /\ IF Dendritoma_mismatch(unit.dendritoma, inputs)
       THEN /\ outcome' = "panic"
            /\ unit_call' = [op |-> "integrate", inputs |-> inputs]
       ELSE /\ outcome' = "ok"
            /\ unit_call' = [op |-> "integrate", inputs |-> inputs,
                             result |-> integrate(unit.dendritoma, inputs)]
    /\ UNCHANGED unit
    /\ UnitFrame

\* unit.dendritoma.apply_learning(inputs)
UnitApplyLearning(inputs) ==
    /\ outcome = "ok"
    /\ unit_ops < MaxUnitOps
    /\ unit_ops' = unit_ops + 1
    /\ unit_call' = [op |-> "apply_learning", inputs |-> inputs]
    /\ IF Dendritoma_mismatch(unit.dendritoma, inputs)
       THEN outcome' = "panic" /\ UNCHANGED unit
       ELSE /\ outcome' = "ok"
            /\ unit' = [unit EXCEPT
                           !.dendritoma = apply_learning(unit.dendritoma, inputs)]
    /\ UnitFrame

\* unit.update_memory(inputs)
UnitUpdateMemory(inputs) ==
    /\ outcome = "ok"
    /\ unit_ops < MaxUnitOps
    /\ unit_ops' = unit_ops + 1
    /\ unit_call' = [op |-> "update_memory", inputs |-> inputs]
    /\ IF NENV_mismatch(unit, inputs)
       THEN outcome' = "panic" /\ UNCHANGED unit
       ELSE outcome' = "ok" /\ unit' = update_memory(unit, inputs)
    /\ UnitFrame

\* unit.compute_novelty(inputs)
UnitComputeNovelty(inputs) ==
    /\ outcome = "ok"
    /\ unit_ops < MaxUnitOps
    /\ unit_ops' = unit_ops + 1
    /\ IF NENV_mismatch(unit, inputs)
       THEN /\ outcome' = "panic"
            /\ unit_call' = [op |-> "compute_novelty", inputs |-> inputs]
       ELSE /\ outcome' = "ok"
            /\ unit_call' = [op |-> "compute_novelty", inputs |-> inputs,
                             result |-> compute_novelty(unit, inputs)]
    /\ UNCHANGED unit
    /\ UnitFrame

\* unit.glia.update_state(did_fire)
UnitUpdateState(did_fire) ==
    /\ outcome = "ok"
    /\ unit_ops < MaxUnitOps
    /\ unit_ops' = unit_ops + 1
    /\ unit_call' = [op |-> "update_state", did_fire |-> did_fire]
    /\ unit' = [unit EXCEPT !.glia = update_state(unit.glia, did_fire)]
    /\ UNCHANGED outcome
    /\ UnitFrame

\* unit.glia.alert_level = level: the field is public, and is written by the
\* network's mirroring and by the tests of glia.rs
UnitSetAlert(level) ==
    /\ outcome = "ok"
    /\ unit_ops < MaxUnitOps
    /\ unit_ops' = unit_ops + 1
    /\ unit_call' = [op |-> "set_alert", level |-> level]
    /\ unit' = [unit EXCEPT !.glia.alert_level = level]
    /\ UNCHANGED outcome
    /\ UnitFrame

\* unit.glia.energy = energy: the field is public, and is written by the
\* tests of glia.rs and nenv.rs
UnitSetEnergy(energy) ==
    /\ outcome = "ok"
    /\ unit_ops < MaxUnitOps
    /\ unit_ops' = unit_ops + 1
    /\ unit_call' = [op |-> "set_energy", energy |-> energy]
    /\ unit' = [unit EXCEPT !.glia.energy = energy]
    /\ UNCHANGED outcome
    /\ UnitFrame

\* input vectors of the direct calls: of the right length (every input
\* positive; signs alternating), one entry short and one entry long
UnitInputs ==
    { VFill(stimulus_strength, UnitN),
      [j \in 0 .. UnitN - 1 |-> IF j % 2 = 0 THEN -SCALE ELSE stimulus_strength],
      VFill(stimulus_strength, UnitN - 1),
      VFill(stimulus_strength, UnitN + 1) }

\* alert levels in [0, 1]
UnitAlertLevels == {0, 500, 1000}

\* energies in [0, max_energy]: those the tests of glia.rs write
UnitEnergies == {0, 50000, max_energy}

InitUnit ==
    /\ Network_new("FullyConnected", 0, 200, 1)
    /\ InitObs
    /\ \E k \in 1 .. Len(WeightSamples) : Unit_new(200, k)

NextUnit ==
    \/ \E inputs \in UnitInputs : UnitIntegrate(inputs)
    \/ \E inputs \in UnitInputs : UnitApplyLearning(inputs)
    \/ \E inputs \in UnitInputs : UnitUpdateMemory(inputs)
    \/ \E inputs \in UnitInputs : UnitComputeNovelty(inputs)
    \/ \E did_fire \in BOOLEAN : UnitUpdateState(did_fire)
    \/ \E level \in UnitAlertLevels : UnitSetAlert(level)
    \/ \E energy \in UnitEnergies : UnitSetEnergy(energy)

\* one neuron driven by direct calls
SpecUnit == InitUnit /\ [][NextUnit]_vars


\* --------------------------------------- firing decisions on one neuron

\* unit.decide_to_fire(modulated_potential, current_time)
UnitDecideToFire(potential, current_time) ==
    /\ outcome = "ok"
    /\ unit_ops < MaxFireOps
    /\ unit_ops' = unit_ops + 1
    /\ unit_call' = [op |-> "decide_to_fire",
                     modulated_potential |-> potential,
                     current_time |-> current_time]
    /\ unit' = decide_to_fire(unit, potential, current_time)
    /\ UNCHANGED outcome
    /\ UnitFrame

\* modulated potentials below, at and above the threshold of 0.2
FirePotentials == {-SCALE, 100, 200, 201, SCALE}

\* the neuron types
NeuronTypes == {"Excitatory", "Inhibitory"}

\* a neuron of either type, as NENV::new builds it
InitFire ==
    /\ Network_new("FullyConnected", 0, 200, 1)
    /\ InitObs
    /\ unit_call = [op |-> "new"]
    /\ unit_ops = 0
    /\ \E neuron_type \in NeuronTypes :
           unit = NENV_new(0, [j \in 0 .. UnitN - 1 |-> sampled_weight(1, 0, j)],
                           200, neuron_type)

NextFire ==
    \E potential \in FirePotentials, current_time \in 0 .. MaxFireTime :
        UnitDecideToFire(potential, current_time)

\* one neuron driven by decide_to_fire alone, at any times
SpecFire == InitFire /\ [][NextFire]_vars

\* ------------------------------------------- learning on one dendritoma

\* unit.dendritoma.weights = weights: the field is public, and is written by
\* the tests of dendritoma.rs and nenv.rs
UnitSetWeights(weights) ==
    /\ outcome = "ok"
    /\ unit_ops < MaxUnitOps
    /\ unit_ops' = unit_ops + 1
    /\ unit_call' = [op |-> "set_weights", weights |-> weights]
    /\ unit' = [unit EXCEPT !.dendritoma.weights = weights]
    /\ UNCHANGED outcome
    /\ UnitFrame

\* input vectors of apply_learning: every input positive; signs mixed; no
\* input positive; every input zero
LearnInputs ==
    { VFill(stimulus_strength, UnitN),
      [j \in 0 .. UnitN - 1 |-> IF j % 2 = 0 THEN -SCALE ELSE stimulus_strength],
      [j \in 0 .. UnitN - 1 |-> IF j % 2 = 0 THEN -SCALE ELSE 0],
      VFill(0, UnitN) }

\* weight vectors written directly: sqrt(2)/2 each (unit norm for two
\* inputs) and 0.3 each, as in the tests of dendritoma.rs
LearnWeights == { VFill(707, UnitN), VFill(300, UnitN) }

NextLearn ==
    \/ \E inputs \in LearnInputs : UnitApplyLearning(inputs)
    \/ \E weights \in LearnWeights : UnitSetWeights(weights)

\* one dendritoma driven by apply_learning and direct writes of its weights
SpecLearn == InitUnit /\ [][NextLearn]_vars

\* ---------------------------------------------- novelty on one neuron

\* unit.memory_trace = trace: the field is public, and is written by the
\* tests of nenv.rs
UnitSetMemory(trace) ==
    /\ outcome = "ok"
    /\ unit_ops < MaxUnitOps
    /\ unit_ops' = unit_ops + 1
    /\ unit_call' = [op |-> "set_memory", trace |-> trace]
    /\ unit' = [unit EXCEPT !.memory_trace = trace]
    /\ UNCHANGED outcome
    /\ UnitFrame

\* a pattern of unequal entries: 0.5, then 0.3
familiar_pattern == [j \in 0 .. UnitN - 1 |-> IF j = 0 THEN 500 ELSE 300]

\* input vectors of compute_novelty and update_memory: the pattern, every
\* input 1.0, a negative input beside zeros, every input zero
NoveltyInputs ==
    { familiar_pattern,
      VFill(SCALE, UnitN),
      [j \in 0 .. UnitN - 1 |-> IF j = 0 THEN -SCALE ELSE 0],
      VFill(0, UnitN) }

\* memory traces written directly: the pattern, 0.5 each and all zero, as
\* in the tests of compute_novelty
NoveltyTraces == { familiar_pattern, VFill(500, UnitN), VFill(0, UnitN) }

NextNovelty ==
    \/ \E inputs \in NoveltyInputs : UnitComputeNovelty(inputs)
    \/ \E inputs \in NoveltyInputs : UnitUpdateMemory(inputs)
    \/ \E trace \in NoveltyTraces : UnitSetMemory(trace)

\* one neuron driven by compute_novelty, update_memory and direct writes of
\* its memory trace
SpecNovelty == InitUnit /\ [][NextNovelty]_vars

\* ------------------------------------------ networks of every small size

\* inhibitory ratios in [0, 1], the documented domain of Network::new
BuildInhibitoryRatios == {0, 200, 500, 1000}

\* the state right after Network::new(num_neurons, connectivity_type,
\* inhibitory_ratio, 0.2): the arguments of the construction are kept in
\* last_call
InitBuild ==
    \E num_neurons \in 1 .. MaxNeurons,
       connectivity_type \in ConnectivityTypes,
       inhibitory_ratio \in BuildInhibitoryRatios :
        /\ Network_new_of(num_neurons, connectivity_type, inhibitory_ratio, 200, 1)
        /\ last_call = [op |-> "new",
                        num_neurons |-> num_neurons,
                        connectivity_type |-> connectivity_type,
                        inhibitory_ratio |-> inhibitory_ratio]
        /\ gathered_inputs =
               [i \in 0 .. num_neurons - 1 |-> VFill(0, num_neurons)]
        /\ outcome = "ok"
        /\ fired_at = [i \in 0 .. num_neurons - 1 |-> {}]
        /\ cfg_calls = 0
        /\ Unit_new(200, 1)

\* a tick of a built network: no stimulus, or 2.0 on every neuron
BuildTick ==
    /\ current_time_step < MaxBuildTick
    /\ \E external \in {VFill(0, VLen(neurons)),
                        VFill(stimulus_strength, VLen(neurons))} :
           Update(external)

NextBuild == BuildTick

\* networks of 1 to MaxNeurons neurons, of both topologies, right after
\* their construction and over their first ticks
SpecBuild == InitBuild /\ [][NextBuild]_vars

\* ----------------------------------------------- Network: the accessors

\* Network::num_neurons
Network_num_neurons == VLen(neurons)

\* Network::num_firing
num_firing == Cardinality({i \in DOMAIN neurons : neurons[i].is_firing})

\* Network::average_energy
average_energy ==
    RDiv(VSum([i \in DOMAIN neurons |-> neurons[i].glia.energy]), VLen(neurons))

\* Network::average_novelty
average_novelty == current_avg_novelty

\* Network::get_firing_states
get_firing_states == [i \in DOMAIN neurons |-> neurons[i].is_firing]

\* Network::get_energy_levels
get_energy_levels == [i \in DOMAIN neurons |-> neurons[i].glia.energy]

\* Option::None, and Some(x) as the tuple of x's components
None == << >>

\* index_to_coords with the coordinates swapped
index_to_coords_swapped(index) ==
    IF grid_width > 0 /\ index < VLen(neurons)
    THEN <<index % grid_width, index \div grid_width>>
    ELSE None

\* Network::index_to_coords: Some((row, col)) as <<row, col>>
index_to_coords(index) ==
    IF grid_width > 0 /\ index < VLen(neurons)
    THEN <<index \div grid_width, index % grid_width>>
    ELSE None

\* Network::coords_to_index: Some(index) as <<index>>
coords_to_index(row, col) ==
    IF grid_width > 0 /\ row < grid_height /\ col < grid_width
       /\ row * grid_width + col < VLen(neurons)
    THEN <<row * grid_width + col>>
    ELSE None

\* an accessor that clears the average novelty it has read
Access_clearing(call) ==
    /\ last_call' = call
    /\ current_avg_novelty' = 0
    /\ UNCHANGED <<neurons, connectivity_matrix, current_time_step, grid_width,
                   grid_height, alert_level, novelty_alert_threshold,
                   alert_sensitivity>>
    /\ UNCHANGED <<gathered_inputs, outcome, fired_at, cfg_calls>>
    /\ UNCHANGED unit_vars

\* a call of an accessor (&self): it returns its result and writes nothing
Access(call) ==
    /\ last_call' = call
    /\ UNCHANGED net_vars
    /\ UNCHANGED <<gathered_inputs, outcome, fired_at, cfg_calls>>
    /\ UNCHANGED unit_vars

IndexToCoords(index) ==
    /\ outcome = "ok"
    /\ Access([op |-> "index_to_coords", index |-> index,
               result |-> index_to_coords(index)])

CoordsToIndex(row, col) ==
    /\ outcome = "ok"
    /\ Access([op |-> "coords_to_index", row |-> row, col |-> col,
               result |-> coords_to_index(row, col)])

NextGrid ==
    \/ \E index \in 0 .. MaxNeurons + 1 : IndexToCoords(index)
    \/ \E row \in 0 .. MaxCoord, col \in 0 .. MaxCoord : CoordsToIndex(row, col)

\* networks of every small size queried for grid coordinates
SpecGrid == InitBuild /\ [][NextGrid]_vars

\* ------------------------------- every operation of the network's interface

NumNeurons ==
    /\ outcome = "ok"
    /\ Access([op |-> "num_neurons", result |-> Network_num_neurons])

NumFiring ==
    /\ outcome = "ok"
    /\ Access([op |-> "num_firing", result |-> num_firing])

AverageEnergy ==
    /\ outcome = "ok"
    /\ Access([op |-> "average_energy", result |-> average_energy])

AverageNovelty ==
    /\ outcome = "ok"
    /\ Access([op |-> "average_novelty", result |-> average_novelty])

GetFiringStates ==
    /\ outcome = "ok"
    /\ Access([op |-> "get_firing_states", result |-> get_firing_states])

GetEnergyLevels ==
    /\ outcome = "ok"
    /\ Access([op |-> "get_energy_levels", result |-> get_energy_levels])

\* a grid of N neurons, one of them inhibitory, as Network::new builds it
InitOps ==
    /\ Network_new("Grid2D", 500, 200, 1)
    /\ InitObs
    /\ Unit_new(200, 1)

OpsTick ==
    /\ current_time_step < MaxOpsTick
    /\ \E external \in AlertStimuli : Update(external)

\* update, the configuration calls and the accessors, in any order
NextOps ==
    \/ OpsTick
    \/ \E level \in AlertLevels : SetAlertLevel(level)
    \/ \E boost \in Boosts : BoostAlertLevel(boost)
    \/ \E p \in NoveltyAlertParams : SetNoveltyAlertParams(p[1], p[2])
    \/ NumNeurons
    \/ NumFiring
    \/ AverageEnergy
    \/ AverageNovelty
    \/ GetFiringStates
    \/ GetEnergyLevels
    \/ \E index \in 0 .. N : IndexToCoords(index)
    \/ \E row \in 0 .. 1, col \in 0 .. 1 : CoordsToIndex(row, col)

SpecOps == InitOps /\ [][NextOps]_vars
\* ------------------------------------------ the habituation experiment

\* NUM_NEURONS of run_habituation_experiment
NUM_NEURONS == 100

\* INHIBITORY_RATIO of run_habituation_experiment: 0.2
INHIBITORY_RATIO == 200

\* INITIAL_THRESHOLD of run_habituation_experiment: 0.2
INITIAL_THRESHOLD == 200

\* MAX_TIME of run_habituation_experiment
MAX_TIME == 200

\* TARGET_NEURON of run_habituation_experiment
TARGET_NEURON == 55

\* generate_habituation_stimulus(num_neurons, time, target_neuron)
generate_habituation_stimulus(num_neurons, time, target_neuron) ==
    [j \in 0 .. num_neurons - 1 |->
        IF j = target_neuron /\ time > 10 /\ time < 100
        THEN stimulus_strength ELSE 0]

\* the network of the experiment, for each sampling of its weights
InitHab ==
    /\ \E k \in 1 .. Len(WeightSamples) :
           Network_new_of(NUM_NEURONS, "Grid2D", INHIBITORY_RATIO,
                          INITIAL_THRESHOLD, k)
    /\ last_call = [op |-> "new"]
    /\ gathered_inputs = [i \in 0 .. NUM_NEURONS - 1 |-> VFill(0, NUM_NEURONS)]
    /\ outcome = "ok"
    /\ fired_at = [i \in 0 .. NUM_NEURONS - 1 |-> {}]
    /\ cfg_calls = 0
    /\ Unit_new(INITIAL_THRESHOLD, 1)

\* one pass of the simulation loop: t is the tick counter before the update
HabTick ==
    /\ current_time_step < MAX_TIME
    /\ Update(generate_habituation_stimulus(NUM_NEURONS, current_time_step,
                                            TARGET_NEURON))

NextHab == HabTick

SpecHab == InitHab /\ [][NextHab]_vars
\* ------------------------------------- energy and firing on one neuron

\* unit.glia.modulate(integrated_potential)
UnitModulate(potential) ==
    /\ outcome = "ok"
    /\ unit_ops < MaxUnitOps
    /\ unit_ops' = unit_ops + 1
    /\ unit_call' = [op |-> "modulate", integrated_potential |-> potential,
                     result |-> modulate(unit.glia, potential)]
    /\ UNCHANGED <<unit, outcome>>
    /\ UnitFrame

\* unit.update_priority(novelty, 1.0)
UnitUpdatePriority(novelty) ==
    /\ outcome = "ok"
    /\ unit_ops < MaxUnitOps
    /\ unit_ops' = unit_ops + 1
    /\ unit_call' = [op |-> "update_priority", novelty |-> novelty]
    /\ unit' = update_priority(unit, novelty, SCALE)
    /\ UNCHANGED outcome
    /\ UnitFrame

\* potential = unit.get_modulated_potential(inputs), then
\* unit.decide_to_fire(potential, current_time)
UnitFireStep(inputs, current_time) ==
    /\ outcome = "ok"
    /\ unit_ops < MaxUnitOps
    /\ unit_ops' = unit_ops + 1
    /\ \E potential \in {modulated_potential(unit, inputs)} :
           /\ unit_call' = [op |-> "fire_step", inputs |-> inputs,
                            potential |-> potential,
                            current_time |-> current_time]
           /\ unit' = decide_to_fire(unit, potential, current_time)
    /\ UNCHANGED outcome
    /\ UnitFrame

\* novelties: none, moderate, and beyond the cap of the priority
UnitNovelties == {0, 500, 3 * SCALE}

NextEnergy ==
    \/ \E energy \in UnitEnergies : UnitSetEnergy(energy)
    \/ \E novelty \in UnitNovelties : UnitUpdatePriority(novelty)
    \/ \E potential \in FirePotentials : UnitModulate(potential)
    \/ \E inputs \in LearnInputs, current_time \in {0, MaxFireTime} :
           UnitFireStep(inputs, current_time)

\* one neuron driven by its energy, its priority and its firing decision
SpecEnergy == InitUnit /\ [][NextEnergy]_vars
\* ------------------------------- one tick with the neurons in any order

\* the outputs a neuron reads while others are being decided, taken from
\* the population as it is at that moment
previous_outputs_live(start, live) == all_neuron_outputs(live)

\* the outputs a neuron reads: update's snapshot of the population as it
\* stood before the tick
previous_outputs(start, live) == all_neuron_outputs(start)

\* the orders in which n neurons can be visited
Orders(n) ==
    {order \in [1 .. n -> 0 .. n - 1] :
        \A a \in 1 .. n, b \in 1 .. n : order[a] = order[b] => a = b}

\* phases 1-3 neuron by neuron from position k of the order on: each neuron
\* gathers, integrates, modulates and decides before the next one starts
RECURSIVE fire_in_order(_, _, _, _, _, _)
fire_in_order(start, acc, external, tick, order, k) ==
    IF k > Len(order) THEN acc
    ELSE LET i == order[k]
             inputs == gather_inputs(i, previous_outputs(start, acc.ns), external)
             fired == decide_to_fire(acc.ns[i],
                                     modulated_potential(acc.ns[i], inputs), tick)
         IN  fire_in_order(start,
                           [ns |-> [acc.ns EXCEPT ![i] = fired],
                            gathered |-> [acc.gathered EXCEPT ![i] = inputs]],
                           external, tick, order, k + 1)

\* phase 4 neuron by neuron from position k of the order on
RECURSIVE learn_in_order(_, _, _, _)
learn_in_order(done, gathered, order, k) ==
    IF k > Len(order) THEN done
    ELSE LET i == order[k]
         IN  learn_in_order(
                 [done EXCEPT ![i] = learn_and_update(done[i].neuron, gathered[i])],
                 gathered, order, k + 1)

\* phases 1-4 in a given order, with a barrier between the firing decisions
\* and phase 4
run_phases_in_order(ns, external, tick, order) ==
    LET fired == fire_in_order(ns, [ns |-> ns,
                                    gathered |-> [i \in DOMAIN ns |-> << >>]],
                               external, tick, order, 1)
    IN  [gathered |-> fired.gathered,
         done |-> learn_in_order(
                      [i \in DOMAIN ns |-> [neuron |-> fired.ns[i], novelty |-> 0]],
                      fired.gathered, order, 1)]

\* Network::update with its loops over the population run in a given order
UpdateInOrder(external, order) ==
    LET tick == next_time_step(current_time_step)
        level0 == decayed_alert(alert_level)
    IN  \E ns0 \in {propagate_alert(neurons, level0)} :
        \E run \in {run_phases_in_order(ns0, external, tick, order)} :
        LET total_novelty == VSum([i \in DOMAIN run.done |-> run.done[i].novelty])
            avg == RDiv(total_novelty, VLen(neurons))
            level1 == IF avg > novelty_alert_threshold
                      THEN boosted_alert(level0, FMul(avg, alert_sensitivity))
                      ELSE level0
        IN  /\ outcome = "ok"
            /\ current_time_step < MaxOrderTick
            /\ last_call' = [op |-> "update", external_inputs |-> external,
                             order |-> order]
            /\ gathered_inputs' = run.gathered
            /\ current_time_step' = tick
            /\ outcome' = "ok"
            /\ neurons' = propagate_alert(
                              [i \in DOMAIN run.done |-> run.done[i].neuron],
                              level1)
            /\ alert_level' = level1
            /\ current_avg_novelty' = avg
            /\ fired_at' =
                   [i \in DOMAIN run.done |->
                       IF run.done[i].neuron.is_firing
                       THEN fired_at[i] \cup {tick} ELSE fired_at[i]]
            /\ UNCHANGED <<connectivity_matrix, grid_width, grid_height,
                           novelty_alert_threshold, alert_sensitivity, cfg_calls>>
            /\ UNCHANGED unit_vars

\* stimuli of the right length: silence, one target neuron, every neuron
OrderStimuli ==
    { VFill(0, N),
      [j \in 0 .. N - 1 |-> IF j = 0 THEN stimulus_strength ELSE 0],
      VFill(stimulus_strength, N) }

NextOrder ==
    \E external \in OrderStimuli, order \in Orders(N) :
        UpdateInOrder(external, order)

\* the network driven by updates that visit the neurons in any order
SpecOrder == Init /\ [][NextOrder]_vars
\* ------------------------------------------------ a network left alone

\* thresholds of the quiet network: the lowest non-negative one and 0.2
QuietThresholds == {0, 200}

\* silence, as a stimulus of the population's length, one entry short and
\* one entry long
QuietStimuli == {VFill(0, N), VFill(0, N - 1), VFill(0, N + 1)}

InitQuiet ==
    /\ \E connectivity_type \in ConnectivityTypes,
          inhibitory_ratio \in InhibitoryRatios,
          initial_threshold \in QuietThresholds,
          k \in 1 .. Len(WeightSamples) :
           Network_new(connectivity_type, inhibitory_ratio, initial_threshold, k)
    /\ InitObs
    /\ Unit_new(200, 1)

QuietTick ==
    /\ current_time_step < MaxQuietTick
    /\ \E external \in QuietStimuli : Update(external)

NextQuiet == QuietTick

\* a freshly built network given no stimulus, tick after tick
SpecQuiet == InitQuiet /\ [][NextQuiet]_vars
\* ------------------------------------------------------------- claims

\* the claims' reading of the stimulus: entry j of a vector of length N
StimulusAt(external, j) == external[j]

\* the claims' reading of the gathered input of neuron i, slot j, from the
\* outputs as they stand before the tick and a stimulus defined at slot j
ExpectedInput(i, j, stimulus_j) ==
    (IF connectivity_matrix[i][j] = 1 THEN neurons[j].output_signal ELSE 0)
    + stimulus_j

\* the claims' reading of novelty: the mean absolute difference of two
\* vectors of equal length
MeanAbsDiff(a, b) ==
    RDiv(VSum([i \in DOMAIN a |-> Abs(a[i] - b[i])]), VLen(a))

\* a step of the network that is one completed update
IsUpdateStep ==
    /\ current_time_step' = current_time_step + 1
    /\ last_call'.op = "update"

\* C1: for every neuron, any two distinct ticks at which it fires are at
\* least refractory_period ticks apart, whatever the stimuli fed to update.
C1_RefractoryGap ==
    \A i \in DOMAIN fired_at :
        \A t1 \in fired_at[i], t2 \in fired_at[i] :
            t1 < t2 => t2 - t1 >= refractory_period

\* a neuron has fired twice, the second time as early as the period allows
C1_Witness ==
    \E i \in DOMAIN fired_at :
        \E t1 \in fired_at[i], t2 \in fired_at[i] :
            t2 - t1 = refractory_period

\* C2: after any sequence of Glia::update_state(true/false) calls with any
\* alert_level in [0, 1], the energy lies in [0, max_energy]; the same holds
\* of every neuron of the network after any sequence of updates.
C2_EnergyBounded ==
    /\ 0 <= unit.glia.energy
    /\ unit.glia.energy <= max_energy
    /\ \A i \in DOMAIN neurons :
           /\ 0 <= neurons[i].glia.energy
           /\ neurons[i].glia.energy <= max_energy

\* a firing at low energy has been clamped at 0, with the alert level raised
C2_Witness ==
    /\ unit_call.op = "update_state"
    /\ unit_call.did_fire
    /\ unit.glia.energy = 0
    /\ unit.glia.alert_level > 0

\* C3: the network's alert_level never exceeds 1.0, after any sequence of
\* update, set_alert_level and boost_alert_level calls.
C3_AlertAtMostOne == alert_level <= SCALE

\* a boost larger than the whole range has been capped at 1.0
C3_Witness ==
    /\ last_call.op = "boost_alert_level"
    /\ last_call.boost > SCALE
    /\ alert_level = SCALE

\* C4: alert_level, and every neuron's copy of it, stays in [0, 1] in every
\* reachable state, whatever the arguments of the configuration calls.
C4_AlertInUnitInterval ==
    /\ 0 <= alert_level /\ alert_level <= SCALE
    /\ \A i \in DOMAIN neurons :
           /\ 0 <= neurons[i].glia.alert_level
           /\ neurons[i].glia.alert_level <= SCALE

\* C5 as stated: update fails whenever the stimulus length differs from the
\* population size.
C5_WrongLengthFails ==
    (last_call.op = "update" /\ VLen(last_call.external_inputs) # VLen(neurons))
        => outcome = "panic"

\* C5 as amended: update does not fail on a stimulus of the wrong length; it
\* carries out the tick, reading a missing entry as 0 and ignoring the
\* entries beyond the population size.
C5_WrongLengthReshaped ==
    [][(IsUpdateStep /\ VLen(last_call'.external_inputs) # VLen(neurons))
        => /\ outcome' = "ok"
           /\ \A i \in DOMAIN neurons :
                  /\ DOMAIN gathered_inputs'[i] = DOMAIN neurons
                  /\ \A j \in DOMAIN neurons :
                         gathered_inputs'[i][j] =
                             ExpectedInput(i, j,
                                 IF j \in DOMAIN last_call'.external_inputs
                                 THEN last_call'.external_inputs[j] ELSE 0)]_vars

\* a tick run on a stimulus one entry short, in which a neuron fired
C5_Witness ==
    /\ last_call.op = "update"
    /\ VLen(last_call.external_inputs) < VLen(neurons)
    /\ outcome = "ok"
    /\ \E i \in DOMAIN neurons : neurons[i].is_firing

\* the four operations that take an inputs vector
VectorOps == {"integrate", "apply_learning", "update_memory", "compute_novelty"}

\* C6: integrate, apply_learning, update_memory and compute_novelty fail when
\* the inputs vector's length differs from n, before any weight or
\* memory-trace element is modified.
C6_MismatchFailsUnchanged ==
    [][(/\ unit_ops' = unit_ops + 1
        /\ unit_call'.op \in VectorOps
        /\ VLen(unit_call'.inputs) # VLen(unit.dendritoma.weights))
        => (outcome' = "panic" /\ unit' = unit)]_vars

\* apply_learning has failed on a vector one entry long, after an earlier
\* call had changed the neuron
C6_Witness ==
    /\ outcome = "panic"
    /\ unit_call.op = "apply_learning"
    /\ VLen(unit_call.inputs) > VLen(unit.dendritoma.weights)
    /\ unit_ops > 1

\* C7: in a tick, slot j of neuron i's gathered input is the output of
\* neuron j at the end of the previous tick if connectivity_matrix[i][j] is
\* set, else 0, plus external_stimulus[j]; no decision of the tick enters it.
C7_SynchronousGather ==
    [][(IsUpdateStep /\ VLen(last_call'.external_inputs) = VLen(neurons))
        => \A i \in DOMAIN neurons : \A j \in DOMAIN neurons :
               gathered_inputs'[i][j] =
                   ExpectedInput(i, j, StimulusAt(last_call'.external_inputs, j))
      ]_vars

\* a tick in which a neuron read the previous output of a connected neuron
\* that changed its firing state in this very tick
C7_Witness ==
    /\ last_call.op = "update"
    /\ VLen(last_call.external_inputs) = VLen(neurons)
    /\ \E i \in DOMAIN neurons, j \in DOMAIN neurons :
           /\ connectivity_matrix[i][j] = 1
           /\ gathered_inputs[i][j] # last_call.external_inputs[j]
           /\ ~neurons[j].is_firing

\* C9: after every update each neuron's priority is min(1 + novelty, 3.0),
\* novelty being that of the tick just run (this tick's gathered inputs
\* against the memory trace of the start of the tick), whatever the priority
\* was before; so the priority lies in [1, 3] in every reachable state.
C9_PriorityRule ==
    /\ [](\A i \in DOMAIN neurons :
              /\ SCALE <= neurons[i].glia.priority
              /\ neurons[i].glia.priority <= 3 * SCALE)
    /\ [][IsUpdateStep
          => \A i \in DOMAIN neurons :
                 neurons'[i].glia.priority =
                     Min(SCALE + MeanAbsDiff(gathered_inputs'[i],
                                             neurons[i].memory_trace),
                         3 * SCALE)]_vars

\* after a tick one neuron's priority is capped at 3.0 and another's lies
\* strictly between 1 and 3, both having been above 1 before
C9_Witness ==
    /\ current_time_step >= 2
    /\ \E i \in DOMAIN neurons : neurons[i].glia.priority = 3 * SCALE
    /\ \E i \in DOMAIN neurons :
           /\ neurons[i].glia.priority > SCALE
           /\ neurons[i].glia.priority < 3 * SCALE

\* the alert rule of update: decay, then the boost when the average novelty
\* is strictly above the threshold
AlertRule ==
    LET d == FMul(alert_level, SCALE - alert_decay_rate)
    IN  alert_level' =
            IF current_avg_novelty' > novelty_alert_threshold
            THEN Min(d + FMul(current_avg_novelty', alert_sensitivity), SCALE)
            ELSE d

\* C10: update sets alert_level by the alert rule, and so over a tick whose
\* average novelty does not exceed the threshold the alert level does not
\* increase.
C10_AlertRuleAndDecay ==
    [][IsUpdateStep
        => /\ AlertRule
           /\ (current_avg_novelty' <= novelty_alert_threshold
                  => alert_level' <= alert_level)]_vars


\* C11: after construction and after every completed update,
\* set_alert_level or boost_alert_level call, every neuron's copy of the
\* alert level equals the network's alert_level.
C11_AlertMirrored ==
    outcome = "ok" =>
        \A i \in DOMAIN neurons : neurons[i].glia.alert_level = alert_level

\* an update has decayed a level that a configuration call had raised, and
\* the copies have followed it
C11_Witness ==
    /\ last_call.op = "update"
    /\ cfg_calls > 0
    /\ alert_level > 0
    /\ alert_level < SCALE
    /\ \A i \in DOMAIN neurons : neurons[i].glia.alert_level = alert_level

\* the claims' reading of "refractory": a last fire is recorded and fewer
\* than refractory_period ticks have passed since
Refractory(n, tick) ==
    n.last_fire_time # -1 /\ tick - n.last_fire_time < refractory_period

\* a step that is one direct decide_to_fire call
IsDecideStep ==
    /\ unit_ops' = unit_ops + 1
    /\ unit_call'.op = "decide_to_fire"

\* C12: decide_to_fire(p, tick) makes the neuron fire iff p > threshold
\* (strictly) and the neuron is not refractory; a firing neuron records the
\* tick and outputs +1 or -1 by its type; otherwise it is left not firing,
\* with output 0 and its last fire tick unchanged.
C12_FireDecisionRule ==
    [][IsDecideStep =>
        LET p == unit_call'.modulated_potential
            tick == unit_call'.current_time
        IN  IF p > unit.threshold /\ ~Refractory(unit, tick)
            THEN /\ unit'.is_firing
                 /\ unit'.last_fire_time = tick
                 /\ unit'.output_signal =
                        (IF unit.neuron_type = "Excitatory" THEN SCALE ELSE -SCALE)
            ELSE /\ ~unit'.is_firing
                 /\ unit'.output_signal = 0
                 /\ unit'.last_fire_time = unit.last_fire_time]_vars

\* a neuron past its refractory period has been offered exactly its
\* threshold and has not fired
C12_Witness ==
    /\ unit_call.op = "decide_to_fire"
    /\ unit_call.modulated_potential = unit.threshold
    /\ unit.last_fire_time >= 0
    /\ unit_call.current_time - unit.last_fire_time >= refractory_period
    /\ ~unit.is_firing

\* the firing state of one neuron is consistent at the current tick
FiringConsistent(n) ==
    /\ n.output_signal \in {-SCALE, 0, SCALE}
    /\ n.is_firing <=> n.output_signal # 0
    /\ n.is_firing <=> n.last_fire_time = current_time_step
    /\ n.is_firing =>
           n.output_signal = (IF n.neuron_type = "Excitatory" THEN SCALE ELSE -SCALE)
    /\ n.last_fire_time <= current_time_step

\* C13: in every state reached by update, output_signal is in {-1, 0, +1};
\* is_firing holds iff output_signal # 0 iff the last fire tick is the
\* current tick; a firing Excitatory neuron outputs +1 and a firing
\* Inhibitory one -1; the last fire tick never decreases and never exceeds
\* the current tick.
C13_FiringStateConsistent ==
    /\ [](\A i \in DOMAIN neurons : FiringConsistent(neurons[i]))
    /\ [][\A i \in DOMAIN neurons :
              neurons'[i].last_fire_time >= neurons[i].last_fire_time]_vars

\* an Inhibitory neuron is firing beside an Excitatory one that fired at an
\* earlier tick and is now silent
C13_Witness ==
    /\ \E i \in DOMAIN neurons :
           /\ neurons[i].neuron_type = "Inhibitory"
           /\ neurons[i].is_firing
           /\ neurons[i].output_signal = -SCALE
    /\ \E i \in DOMAIN neurons :
           /\ neurons[i].neuron_type = "Excitatory"
           /\ ~neurons[i].is_firing
           /\ neurons[i].last_fire_time >= 1
           /\ neurons[i].last_fire_time < current_time_step

\* C14: a neuron that has never fired is never refractory: at any time
\* (from 0 in a direct call), also one smaller than refractory_period, a
\* never-fired neuron whose modulated potential exceeds its threshold fires.
C14_NeverFiredNotRefractory ==
    [][(/\ IsDecideStep
        /\ unit.last_fire_time = -1
        /\ unit_call'.modulated_potential > unit.threshold)
        => (unit'.is_firing /\ unit'.last_fire_time = unit_call'.current_time)]_vars

\* a neuron has fired for the first time at time 0, after a call that did
\* not make it fire
C14_Witness ==
    /\ unit_call.op = "decide_to_fire"
    /\ unit_ops = 2
    /\ unit_call.current_time = 0
    /\ unit.is_firing
    /\ unit.last_fire_time = 0

\* the numerical tolerance of the norm claims: 0.005, ten times the
\* rounding error of one fixed-point weight
norm_tolerance == SCALE \div 200

\* C15: after any apply_learning call whose resulting weight vector has a
\* nonzero norm, the L2 norm of the weights is 1 within the tolerance, for
\* every input vector and across repeated calls.
C15_UnitNormAfterLearning ==
    (/\ unit_call.op = "apply_learning"
     /\ outcome = "ok"
     /\ weight_norm(unit.dendritoma.weights) # 0)
        => Abs(weight_norm(unit.dendritoma.weights) - SCALE) <= norm_tolerance

\* a third call in a row has reinforced the weights and left them
\* normalised
C15_Witness ==
    /\ unit_call.op = "apply_learning"
    /\ outcome = "ok"
    /\ unit_ops >= 3
    /\ \E j \in DOMAIN unit_call.inputs : unit_call.inputs[j] > 0
    /\ Abs(weight_norm(unit.dendritoma.weights) - SCALE) <= norm_tolerance
    /\ \E i \in DOMAIN unit.dendritoma.weights, j \in DOMAIN unit.dendritoma.weights :
           unit.dendritoma.weights[i] # unit.dendritoma.weights[j]

\* a step that is one completed apply_learning call
IsLearnStep ==
    /\ unit_ops' = unit_ops + 1
    /\ unit_call'.op = "apply_learning"
    /\ outcome' = "ok"

\* the claims' reading of the reinforcement of weight i
Reinforced(d, inputs, i) ==
    IF inputs[i] > 0
    THEN d.weights[i] + FMul(FMul(learning_rate, d.plasticity[i]), inputs[i])
    ELSE d.weights[i]

\* C16: apply_learning reinforces weight i, by learning_rate * plasticity[i]
\* * inputs[i] before the normalisation, only where inputs[i] > 0; when
\* every input is <= 0 and the weights already have unit norm, it leaves
\* every weight unchanged.
C16_OneSidedHebbian ==
    [][IsLearnStep =>
        LET d == unit.dendritoma
            inputs == unit_call'.inputs
        IN  /\ unit'.dendritoma.weights =
                   normalize([i \in DOMAIN d.weights |-> Reinforced(d, inputs, i)])
            /\ (/\ \A i \in DOMAIN inputs : inputs[i] <= 0
                /\ weight_norm(d.weights) = SCALE)
                   => unit'.dendritoma.weights = d.weights]_vars

\* apply_learning with a negative input and no positive one has left
\* weights of unit norm, reached by learning, as they were
C16_Witness ==
    /\ unit_call.op = "apply_learning"
    /\ outcome = "ok"
    /\ unit_ops >= 2
    /\ \A j \in DOMAIN unit_call.inputs : unit_call.inputs[j] <= 0
    /\ \E j \in DOMAIN unit_call.inputs : unit_call.inputs[j] < 0
    /\ weight_norm(unit.dendritoma.weights) = SCALE
    /\ unit.dendritoma.weights \notin LearnWeights

\* C17: compute_novelty returns the mean absolute elementwise difference
\* between the inputs and the memory trace: exactly 0 when the inputs equal
\* the trace, mean(|input|) when the trace is all zero, and never negative.
C17_NoveltyIsMeanAbsDiff ==
    (unit_call.op = "compute_novelty" /\ outcome = "ok") =>
        LET inputs == unit_call.inputs
            trace == unit.memory_trace
            novelty == unit_call.result
        IN  /\ novelty = MeanAbsDiff(inputs, trace)
            /\ inputs = trace => novelty = 0
            /\ (\A i \in DOMAIN trace : trace[i] = 0)
                   => novelty = RDiv(VSum([i \in DOMAIN inputs |-> Abs(inputs[i])]),
                                     VLen(inputs))
            /\ novelty >= 0

\* a negative input against a trace that update_memory has made nonzero
\* has given a positive novelty
C17_Witness ==
    /\ unit_call.op = "compute_novelty"
    /\ outcome = "ok"
    /\ \E i \in DOMAIN unit_call.inputs :
           unit_call.inputs[i] < 0 /\ unit.memory_trace[i] > 0
    /\ unit.memory_trace \notin NoveltyTraces
    /\ unit_call.result > 0

\* the state is the one right after Network::new with this topology
JustBuilt(connectivity_type) ==
    /\ last_call.op = "new"
    /\ "connectivity_type" \in DOMAIN last_call
    /\ last_call.connectivity_type = connectivity_type

\* the number of entries set in row i of the adjacency matrix
RowSum(i) == VSum(connectivity_matrix[i])

CeilSqrt(n) == CHOOSE s \in 0 .. n : s * s >= n /\ \A t \in 0 .. s - 1 : t * t < n

\* grid positions of i and j, on a grid of the given side, differ by at most
\* 1 in row and in column, without wrap-around
GridNeighbours(i, j, side) ==
    /\ Abs((i \div side) - (j \div side)) <= 1
    /\ Abs((i % side) - (j % side)) <= 1

\* C19: in a Grid2D network of n neurons with side = ceil(sqrt(n)),
\* adjacency[i][j] is set iff i # j and the grid positions of i and j differ
\* by at most 1 in row and in column (no wrap-around); so the relation is
\* symmetric and has no self-entries, and in the 9-neuron grid the centre
\* (index 4) has 8 neighbours and the corner (index 0) has 3.
C19_GridMooreNeighbourhood ==
    JustBuilt("Grid2D") =>
        LET n == last_call.num_neurons
            side == CeilSqrt(n)
        IN  /\ grid_width = side /\ grid_height = side
            /\ DOMAIN connectivity_matrix = 0 .. n - 1
            /\ \A i \in 0 .. n - 1 :
                   /\ DOMAIN connectivity_matrix[i] = 0 .. n - 1
                   /\ connectivity_matrix[i][i] = 0
                   /\ \A j \in 0 .. n - 1 :
                          /\ connectivity_matrix[i][j] \in {0, 1}
                          /\ connectivity_matrix[i][j] = 1
                                 <=> (i # j /\ GridNeighbours(i, j, side))
                          /\ connectivity_matrix[i][j] = connectivity_matrix[j][i]
            /\ n = 9 => (RowSum(4) = 8 /\ RowSum(0) = 3)

\* the 9-neuron grid has been built: 8 neighbours at the centre, 3 at the
\* corner
C19_Witness ==
    /\ JustBuilt("Grid2D")
    /\ last_call.num_neurons = 9
    /\ RowSum(4) = 8
    /\ RowSum(0) = 3

\* the claims' reading of floor(n * inhibitory_ratio)
FloorShare(n, inhibitory_ratio) == (n * inhibitory_ratio) \div SCALE

\* C20: at construction neuron i is Inhibitory iff i < floor(n *
\* inhibitory_ratio) and Excitatory otherwise, so exactly that many neurons
\* are inhibitory and they have the lowest ids; ids equal positions.
C20_InhibitoryLowestIds ==
    (last_call.op = "new" /\ "inhibitory_ratio" \in DOMAIN last_call) =>
        LET n == last_call.num_neurons
            share == FloorShare(n, last_call.inhibitory_ratio)
        IN  /\ DOMAIN neurons = 0 .. n - 1
            /\ \A i \in 0 .. n - 1 :
                   /\ neurons[i].id = i
                   /\ neurons[i].neuron_type \in {"Inhibitory", "Excitatory"}
                   /\ neurons[i].neuron_type = "Inhibitory" <=> i < share
            /\ Cardinality({i \in 0 .. n - 1 :
                               neurons[i].neuron_type = "Inhibitory"}) = share

\* a network whose share of inhibitory neurons is not a whole number has
\* been built: floor(7 * 0.5) = 3 inhibitory neurons, ids 0 to 2
C20_Witness ==
    /\ last_call.op = "new"
    /\ "inhibitory_ratio" \in DOMAIN last_call
    /\ last_call.num_neurons = 7
    /\ last_call.inhibitory_ratio = 500
    /\ {i \in DOMAIN neurons : neurons[i].neuron_type = "Inhibitory"} = {0, 1, 2}

\* C21: in a Grid2D network, index_to_coords(i) of every index i < n gives
\* (r, c) with coords_to_index(r, c) = i, and index_to_coords of every index
\* that coords_to_index(r, c) gives returns (r, c); indices >= n, and
\* coordinates outside the grid or mapping to an index >= n, give no result;
\* under FullyConnected both conversions give no result for every argument.
C21_CoordsRoundTrip ==
    LET n == VLen(neurons)
    IN  /\ last_call.op = "index_to_coords" =>
               IF grid_width > 0 /\ last_call.index < n
               THEN /\ Len(last_call.result) = 2
                    /\ coords_to_index(last_call.result[1], last_call.result[2])
                           = <<last_call.index>>
               ELSE last_call.result = None
        /\ last_call.op = "coords_to_index" =>
               IF /\ grid_width > 0
                  /\ last_call.row < grid_width
                  /\ last_call.col < grid_width
                  /\ last_call.row * grid_width + last_call.col < n
               THEN /\ last_call.result
                           = <<last_call.row * grid_width + last_call.col>>
                    /\ index_to_coords(last_call.result[1])
                           = <<last_call.row, last_call.col>>
               ELSE last_call.result = None

\* in a grid of 7 neurons (side 3) the index 5 has been converted to the
\* coordinates (1, 2), which convert back to 5
C21_Witness ==
    /\ last_call.op = "index_to_coords"
    /\ VLen(neurons) = 7
    /\ last_call.index = 5
    /\ last_call.result = <<1, 2>>
    /\ coords_to_index(1, 2) = <<5>>

\* the accessors of the network
AccessorOps ==
    {"num_neurons", "num_firing", "average_energy", "average_novelty",
     "get_firing_states", "get_energy_levels", "index_to_coords",
     "coords_to_index"}

\* the configuration calls of the network
ConfigOps == {"set_alert_level", "boost_alert_level", "set_novelty_alert_params"}

\* C22: the tick counter is 0 after construction, every update advances it
\* by exactly 1, and no other operation (accessor or configuration call)
\* changes it.
C22_TickCounter ==
    /\ [](last_call.op = "new" => current_time_step = 0)
    /\ [][/\ last_call'.op \in {"update"} \cup AccessorOps \cup ConfigOps
          /\ current_time_step' =
                 current_time_step + (IF last_call'.op = "update" THEN 1 ELSE 0)]_vars

\* an accessor has been called after an update and a configuration call,
\* the counter standing at 1
C22_Witness ==
    /\ last_call.op \in AccessorOps
    /\ cfg_calls > 0
    /\ current_time_step = 1

\* C23: the read-only accessors leave the whole network state unchanged, so
\* average_novelty and average_energy called again with no update in between
\* return the same value.
C23_AccessorsReadOnly ==
    [][/\ last_call'.op \in AccessorOps => UNCHANGED net_vars
       /\ (/\ last_call.op \in {"average_novelty", "average_energy"}
           /\ last_call'.op = last_call.op)
              => last_call'.result = last_call.result]_vars

\* average_novelty has returned the nonzero novelty of the last update
C23_Witness ==
    /\ last_call.op = "average_novelty"
    /\ current_time_step > 0
    /\ last_call.result > 0
    /\ last_call.result = current_avg_novelty

\* the state of neuron i that a configuration call must leave alone
NeuronCore(n) ==
    <<n.is_firing, n.output_signal, n.glia.energy, n.dendritoma.weights,
      n.memory_trace>>

\* C24: set_novelty_alert_params(t, s) never fails and stores max(t, 0) and
\* s clamped to [0, 1]; set_alert_level(x) never fails and stores x clamped
\* to [0, 1]; neither changes the tick nor any neuron's firing state, energy,
\* weights or memory.
C24_ConfigSetters ==
    [][/\ last_call'.op = "set_novelty_alert_params" =>
              /\ novelty_alert_threshold' = Max(last_call'.threshold, 0)
              /\ alert_sensitivity' = Clamp(last_call'.sensitivity, 0, SCALE)
       /\ last_call'.op = "set_alert_level" =>
              alert_level' = Clamp(last_call'.level, 0, SCALE)
       /\ last_call'.op \in {"set_novelty_alert_params", "set_alert_level"} =>
              /\ outcome' = "ok"
              /\ current_time_step' = current_time_step
              /\ \A i \in 0 .. N - 1 :
                     NeuronCore(neurons'[i]) = NeuronCore(neurons[i])]_vars

\* both setters have been called with out-of-range arguments after an update
C24_Witness ==
    /\ current_time_step > 0
    /\ last_call.op = "set_alert_level"
    /\ last_call.level < 0
    /\ alert_level = 0
    /\ novelty_alert_threshold = 0
    /\ alert_sensitivity = SCALE

RECURSIVE rest_energy(_)
rest_energy(t) ==
    IF t = 0 THEN max_energy
    ELSE update_state([Glia_new EXCEPT !.energy = rest_energy(t - 1)], FALSE).energy

\* the ticks of the simulation loop whose update carries the stimulus, as
\* values of the tick counter after the update
StimulatedTicks == {t \in 1 .. MAX_TIME : (t - 1) > 10 /\ (t - 1) < 100}

\* the target neuron could have fired in tick t (it had fired before and
\* was out of its refractory period) and did not
Stalled(t) ==
    /\ t \notin fired_at[TARGET_NEURON]
    /\ \E s \in fired_at[TARGET_NEURON] : s < t
    /\ \A s \in fired_at[TARGET_NEURON] : s < t => t - s >= refractory_period

C27_DepletedNeverFires ==
    /\ unit_call.op = "modulate" =>
           /\ unit_call.result =
                  FMul(FMul(unit_call.integrated_potential,
                            Max(FDiv(unit.glia.energy, max_energy), 0)),
                       unit.glia.priority)
           /\ unit.glia.energy = 0 => unit_call.result = 0
    /\ (unit_call.op = "fire_step" /\ unit.glia.energy = 0 /\ unit.threshold >= 0)
           => unit_call.potential = 0 /\ ~unit.is_firing

\* a depleted neuron of raised priority, out of its refractory period, has
\* been given an input whose integrated potential exceeds its threshold
C27_Witness ==
    /\ unit_call.op = "fire_step"
    /\ unit.glia.energy = 0
    /\ unit.glia.priority > SCALE
    /\ unit.threshold >= 0
    /\ integrate(unit.dendritoma, unit_call.inputs) > unit.threshold
    /\ ~is_in_refractory(unit, unit_call.current_time)
    /\ ~unit.is_firing

\* C28: a freshly constructed network has tick 0 and alert level 0, no
\* neuron firing (num_firing = 0, every output signal 0), every neuron at
\* full energy (average_energy = 100 = max_energy) with priority 1, an
\* all-zero memory trace and no recorded last fire.
C28_FreshNetwork ==
    last_call.op = "new" =>
        /\ current_time_step = 0
        /\ alert_level = 0
        /\ num_firing = 0
        /\ average_energy = 100 * SCALE
        /\ average_energy = max_energy
        /\ \A i \in DOMAIN neurons :
               /\ ~neurons[i].is_firing
               /\ neurons[i].output_signal = 0
               /\ neurons[i].glia.energy = max_energy
               /\ neurons[i].glia.priority = SCALE
               /\ neurons[i].glia.alert_level = 0
               /\ neurons[i].memory_trace = VFill(0, Network_num_neurons)
               /\ neurons[i].last_fire_time = -1

\* a network of several neurons of both types, just constructed
C28_Witness ==
    /\ last_call.op = "new"
    /\ Network_num_neurons > 2
    /\ \E i \in DOMAIN neurons : neurons[i].neuron_type = "Inhibitory"
    /\ \E i \in DOMAIN neurons : neurons[i].neuron_type = "Excitatory"

\* the energy the update rule prescribes from energy e at alert level a
PrescribedEnergy(e, a, did_fire) ==
    IF did_fire
    THEN Clamp(e - energy_cost_fire - energy_cost_maintenance, 0, max_energy)
    ELSE Clamp(e + FMul(FMul(energy_recovery_rate, SCALE - FDiv(e, max_energy)),
                        SCALE + a)
                 - energy_cost_maintenance,
               0, max_energy)

\* C29: update_state(true) sets the energy to
\* clamp(energy - fire_cost - maintenance_cost, 0, max_energy) and
\* update_state(false) to clamp(energy + r * (1 - energy / max_energy) *
\* (1 + alert_level) - maintenance_cost, 0, max_energy): the maintenance
\* cost is subtracted in both branches before the single clamp, and at rest
\* a higher alert level never yields a lower energy from the same start.
C29_EnergyUpdateRule ==
    [][unit_call'.op = "update_state" =>
           /\ unit'.glia.energy =
                  PrescribedEnergy(unit.glia.energy, unit.glia.alert_level,
                                   unit_call'.did_fire)
           /\ unit' = [unit EXCEPT !.glia.energy = unit'.glia.energy]
           /\ ~unit_call'.did_fire =>
                  \A level \in UnitAlertLevels :
                      level >= unit.glia.alert_level =>
                          update_state([unit.glia EXCEPT !.alert_level = level],
                                       FALSE).energy >= unit'.glia.energy]_vars

\* a neuron at raised alert level has rested from half energy, recovering
\* more than it would have at alert level 0
C29_Witness ==
    /\ unit_call.op = "update_state"
    /\ ~unit_call.did_fire
    /\ unit.glia.alert_level > 0
    /\ unit.glia.energy > 50 * SCALE + energy_recovery_rate \div 2
    /\ unit.glia.energy < max_energy

\* C30: the firing decision of every neuron in tick t uses a modulated
\* potential computed from the neuron's weights, energy and priority as they
\* stood at the end of tick t-1 and from the outputs of the population as
\* they stood then: the priority, learning and energy changes of tick t
\* first affect the decisions of tick t+1, and every potential is computed
\* before any firing state is changed.
C30_PotentialsFromPreviousTick ==
    [][(IsUpdateStep /\ outcome' = "ok") =>
           \A i \in DOMAIN neurons :
               LET inputs == gather_inputs(i, all_neuron_outputs(neurons),
                                           last_call'.external_inputs)
                   potential == modulated_potential(neurons[i], inputs)
               IN  /\ gathered_inputs'[i] = inputs
                   /\ neurons'[i].is_firing =
                          (/\ potential > neurons[i].threshold
                           /\ ~is_in_refractory(neurons[i], current_time_step'))]_vars

\* after an update a neuron outside its refractory period is silent although
\* the potential its updated weights, energy and priority give to the same
\* inputs exceeds its threshold
C30_Witness ==
    /\ last_call.op = "update"
    /\ outcome = "ok"
    /\ current_time_step > 1
    /\ \E i \in DOMAIN neurons :
           /\ ~neurons[i].is_firing
           /\ ~is_in_refractory(neurons[i], current_time_step)
           /\ modulated_potential(neurons[i], gathered_inputs[i])
                  > neurons[i].threshold

\* C31: within a tick each neuron's novelty is computed against its memory
\* trace as it stood at the start of the tick, before update_memory is
\* applied; the memory update then sets
\* trace[j] = (1 - alpha) * trace[j] + alpha * gathered[j] from the same
\* gathered inputs.
C31_NoveltyBeforeMemory ==
    [][(IsUpdateStep /\ outcome' = "ok") =>
           /\ \A i \in DOMAIN neurons :
                  /\ neurons'[i].glia.priority =
                         Min(SCALE + MeanAbsDiff(gathered_inputs'[i],
                                                 neurons[i].memory_trace),
                             max_priority)
                  /\ \A j \in DOMAIN neurons[i].memory_trace :
                         neurons'[i].memory_trace[j] =
                             FMul(SCALE - memory_alpha, neurons[i].memory_trace[j])
                                 + FMul(memory_alpha, gathered_inputs'[i][j])
           /\ current_avg_novelty' =
                  RDiv(VSum([i \in DOMAIN neurons |->
                                MeanAbsDiff(gathered_inputs'[i],
                                            neurons[i].memory_trace)]),
                       VLen(neurons))]_vars

\* after a later update a neuron holds a nonzero trace and a priority below
\* the cap that is not the one its updated trace would give
C31_Witness ==
    /\ last_call.op = "update"
    /\ outcome = "ok"
    /\ current_time_step > 1
    /\ \E i \in DOMAIN neurons :
           /\ \E j \in DOMAIN neurons[i].memory_trace :
                  neurons[i].memory_trace[j] # 0
           /\ neurons[i].glia.priority > SCALE
           /\ neurons[i].glia.priority < max_priority
           /\ neurons[i].glia.priority
                  # SCALE + compute_novelty(neurons[i], gathered_inputs[i])

\* C32: the novelty-driven boost of tick t is not visible inside tick t: the
\* energy recovery of tick t uses the decayed pre-boost level mirrored in
\* phase 0 (the firing decisions use no alert level at all), and the
\* boosted level, mirrored at the end of the tick, is the one the next tick
\* decays from.
C32_BoostNotVisibleMidTick ==
    [][(IsUpdateStep /\ outcome' = "ok") =>
           LET level0 == FMul(alert_level, SCALE - alert_decay_rate)
               boosted ==
                   IF current_avg_novelty' > novelty_alert_threshold
                   THEN Min(level0 + FMul(current_avg_novelty', alert_sensitivity),
                            SCALE)
                   ELSE level0
           IN  /\ alert_level' = boosted
               /\ \A i \in DOMAIN neurons :
                      /\ neurons'[i].glia.alert_level = boosted
                      /\ neurons'[i].glia.energy =
                             PrescribedEnergy(neurons[i].glia.energy, level0,
                                              neurons'[i].is_firing)
                      /\ neurons'[i].is_firing =
                             (/\ modulated_potential(neurons[i], gathered_inputs'[i])
                                     > neurons[i].threshold
                              /\ ~is_in_refractory(neurons[i], current_time_step'))]_vars

\* a tick past the first has boosted a level that was already raised, and a
\* neuron below full energy has rested through it
C32_Witness ==
    /\ last_call.op = "update"
    /\ outcome = "ok"
    /\ current_time_step > 1
    /\ current_avg_novelty > novelty_alert_threshold
    /\ alert_level > FMul(current_avg_novelty, alert_sensitivity)
    /\ \E i \in DOMAIN neurons :
           /\ ~neurons[i].is_firing
           /\ neurons[i].glia.energy < max_energy - energy_cost_fire

\* C33: learning happens only on firing: in a tick in which a neuron does
\* not fire its weights are unchanged by update, and in a tick in which it
\* fires apply_learning is applied exactly once, with that tick's gathered
\* inputs.
C33_LearningOnlyOnFiring ==
    [][(IsUpdateStep /\ outcome' = "ok") =>
           \A i \in DOMAIN neurons :
               neurons'[i].dendritoma =
                   IF neurons'[i].is_firing
                   THEN apply_learning(neurons[i].dendritoma, gathered_inputs'[i])
                   ELSE neurons[i].dendritoma]_vars

\* in one tick a neuron has fired and learnt from a positive input while
\* another, given a positive input too, stayed silent
C33_Witness ==
    /\ last_call.op = "update"
    /\ outcome = "ok"
    /\ \E i \in DOMAIN neurons, k \in DOMAIN neurons :
           /\ neurons[i].is_firing
           /\ \E j \in DOMAIN gathered_inputs[i] : gathered_inputs[i][j] > 0
           /\ ~neurons[k].is_firing
           /\ \E j \in DOMAIN gathered_inputs[k] : gathered_inputs[k][j] > 0

\* C34: within a tick the gathering, integration, modulation and firing
\* decision of a neuron read only the snapshot of the previous tick and the
\* neuron's own state, and phase 4 writes only the neuron's own state:
\* visiting the neurons in any order, with a barrier before phase 4, gives
\* the firing decisions and the per-neuron state of the population order.
C34_OrderIndependent ==
    [][IsUpdateStep =>
           LET ns0 == propagate_alert(neurons, decayed_alert(alert_level))
               gathered == [i \in DOMAIN neurons |->
                               gather_inputs(i, all_neuron_outputs(neurons),
                                             last_call'.external_inputs)]
               done == run_phases(ns0, gathered, current_time_step')
           IN  /\ gathered_inputs' = gathered
               /\ \A i \in DOMAIN neurons :
                      /\ neurons'[i].is_firing = done[i].neuron.is_firing
                      /\ neurons'[i] =
                             [done[i].neuron EXCEPT
                                 !.glia.alert_level = alert_level']]_vars

\* the neuron visited first has just fired, and a neuron visited after it,
\* connected to it, has gathered its output of the previous tick and not
\* the new one
C34_Witness ==
    /\ last_call.op = "update"
    /\ current_time_step > 1
    /\ \E a \in 1 .. N, b \in 1 .. N :
           /\ a < b
           /\ last_call.order[a] > last_call.order[b]
           /\ neurons[last_call.order[a]].is_firing
           /\ connectivity_matrix[last_call.order[b]][last_call.order[a]] = 1
           /\ gathered_inputs[last_call.order[b]][last_call.order[a]]
                  # neurons[last_call.order[a]].output_signal
                        + last_call.external_inputs[last_call.order[a]]

\* the structure of the network that construction fixes
StaticStructure ==
    <<VLen(neurons),
      [i \in DOMAIN neurons |->
          <<neurons[i].id, neurons[i].neuron_type, neurons[i].threshold,
            neurons[i].dendritoma.plasticity>>],
      connectivity_matrix, grid_width, grid_height,
      novelty_alert_threshold, alert_sensitivity>>

\* C35: update never changes the static structure (population size, each
\* neuron's id, kind and threshold, the adjacency structure, the grid
\* dimensions, the plasticity vectors, the novelty/alert parameters), and in
\* every reachable state each neuron's weights, plasticity and memory trace
\* have length n and the adjacency structure is n x n.
C35_StaticStructure ==
    /\ [](/\ \A i \in DOMAIN neurons :
                /\ VLen(neurons[i].dendritoma.weights) = Network_num_neurons
                /\ VLen(neurons[i].dendritoma.plasticity) = Network_num_neurons
                /\ VLen(neurons[i].memory_trace) = Network_num_neurons
          /\ VLen(connectivity_matrix) = Network_num_neurons
          /\ \A i \in DOMAIN connectivity_matrix :
                VLen(connectivity_matrix[i]) = Network_num_neurons)
    /\ [][last_call'.op = "update" => StaticStructure' = StaticStructure]_vars

\* several updates have run, a neuron has fired and learnt, and the last
\* stimulus was not of the population's length
C35_Witness ==
    /\ last_call.op = "update"
    /\ current_time_step > 2
    /\ \E i \in DOMAIN neurons :
           /\ fired_at[i] # {}
           /\ \E j \in DOMAIN neurons : neurons[i].memory_trace[j] # 0
    /\ VLen(last_call.external_inputs) # Network_num_neurons

\* a stimulus cut or zero-padded to n entries
Reshaped(external, n) ==
    [j \in 0 .. n - 1 |-> IF j \in DOMAIN external THEN external[j] ELSE 0]

\* C36: a stimulus of the wrong length is not rejected but reshaped: update
\* with a stimulus shorter than n completes the tick and gives the state of
\* update with that stimulus zero-padded to n entries, and update with a
\* stimulus longer than n gives the state of update with its first n entries.
C36_ReshapedStimulusSameState ==
    [][(IsUpdateStep /\ VLen(last_call'.external_inputs) # VLen(neurons)) =>
           \E level0 \in {decayed_alert(alert_level)} :
           \E reshaped \in {Reshaped(last_call'.external_inputs, VLen(neurons))} :
           \E gathered \in {[i \in DOMAIN neurons |->
                                gather_inputs(i, all_neuron_outputs(neurons),
                                              reshaped)]} :
           \E done \in {run_phases(propagate_alert(neurons, level0), gathered,
                                    current_time_step')} :
           \E avg \in {RDiv(VSum([i \in DOMAIN done |-> done[i].novelty]),
                             VLen(neurons))} :
           \E level1 \in {IF avg > novelty_alert_threshold
                           THEN boosted_alert(level0, FMul(avg, alert_sensitivity))
                           ELSE level0} :
               /\ outcome' = "ok"
               /\ VLen(reshaped) = VLen(neurons)
               /\ gathered_inputs' = gathered
               /\ current_avg_novelty' = avg
               /\ alert_level' = level1
               /\ neurons' = propagate_alert(
                                 [i \in DOMAIN done |-> done[i].neuron], level1)
               /\ UNCHANGED <<connectivity_matrix, grid_width, grid_height,
                              novelty_alert_threshold, alert_sensitivity>>]_vars

\* a later tick has run on a stimulus one entry too long, in a network one
\* of whose neurons had fired in an earlier tick
C36_Witness ==
    /\ last_call.op = "update"
    /\ outcome = "ok"
    /\ current_time_step > 1
    /\ VLen(last_call.external_inputs) > VLen(neurons)
    /\ last_call.external_inputs[VLen(neurons)] # 0
    /\ \E i \in DOMAIN neurons : fired_at[i] # {} /\ ~neurons[i].is_firing

\* C37: from a freshly constructed network with a non-negative threshold,
\* as long as every external stimulus is all zero, no neuron ever fires,
\* every gathered input and memory trace stays zero, the average novelty
\* stays 0, every priority stays 1 and the alert level stays 0.
C37_Quiescence ==
    /\ outcome = "ok"
    /\ num_firing = 0
    /\ current_avg_novelty = 0
    /\ alert_level = 0
    /\ \A i \in DOMAIN neurons :
           /\ neurons[i].threshold >= 0
           /\ ~neurons[i].is_firing
           /\ neurons[i].output_signal = 0
           /\ neurons[i].last_fire_time = -1
           /\ fired_at[i] = {}
           /\ gathered_inputs[i] = VFill(0, Network_num_neurons)
           /\ neurons[i].memory_trace = VFill(0, Network_num_neurons)
           /\ neurons[i].glia.priority = SCALE
           /\ neurons[i].glia.alert_level = 0

\* several silent ticks have passed over a network whose threshold is 0
C37_Witness ==
    /\ last_call.op = "update"
    /\ current_time_step > 2
    /\ \A i \in DOMAIN neurons :
           /\ neurons[i].threshold = 0
           /\ neurons[i].glia.energy < max_energy

\* the rounding allowed on a novelty: 0.002
novelty_tolerance == SCALE \div 500

\* C38: while a neuron's gathered input vector stays the same from tick to
\* tick its novelty is non-increasing and shrinks by the factor
\* (1 - memory_alpha) each tick, so its priority is non-increasing and falls
\* back toward 1 (to within the rounding of the fixed-point arithmetic).
C38_Familiarization ==
    [][(IsUpdateStep /\ outcome' = "ok" /\ last_call.op = "update") =>
           \A i \in DOMAIN neurons :
               gathered_inputs'[i] = gathered_inputs[i] =>
                   LET novelty == MeanAbsDiff(gathered_inputs'[i],
                                              neurons[i].memory_trace)
                       previous == neurons[i].glia.priority - SCALE
                   IN  /\ neurons'[i].glia.priority
                              <= neurons[i].glia.priority + novelty_tolerance
                       /\ neurons'[i].glia.priority >= SCALE
                       /\ neurons[i].glia.priority < max_priority =>
                              /\ novelty <= previous + novelty_tolerance
                              /\ Abs(novelty - FMul(SCALE - memory_alpha, previous))
                                     <= novelty_tolerance]_vars

\* a neuron has met the same nonzero input in the first two ticks (its trace
\* is the one two updates by that input leave), its priority below the cap
\* and above 1 after the second
C38_Witness ==
    /\ last_call.op = "update"
    /\ outcome = "ok"
    /\ current_time_step = 2
    /\ \E i \in DOMAIN neurons :
           /\ \E j \in DOMAIN gathered_inputs[i] : gathered_inputs[i][j] # 0
           /\ \A j \in DOMAIN gathered_inputs[i] :
                  neurons[i].memory_trace[j] =
                      FMul(SCALE - memory_alpha,
                           FMul(memory_alpha, gathered_inputs[i][j]))
                          + FMul(memory_alpha, gathered_inputs[i][j])
           /\ neurons[i].glia.priority > SCALE + novelty_tolerance
           /\ neurons[i].glia.priority < max_priority

\* C39: in every state reachable by update from construction every synaptic
\* weight of every neuron is strictly positive, so the weight norm is never
\* zero and every learning application is followed by normalization (the
\* weights of a neuron that fired have unit norm), and the firing of a
\* connected inhibitory neuron lowers the integrated potential of its
\* targets in the next tick below what it would be had the neuron been
\* silent.
C39_WeightsStayPositive ==
    /\ [](\A i \in DOMAIN neurons :
              /\ \A j \in DOMAIN neurons[i].dendritoma.weights :
                     neurons[i].dendritoma.weights[j] > 0
              /\ weight_norm(neurons[i].dendritoma.weights) > 0)
    /\ [][(IsUpdateStep /\ outcome' = "ok") =>
              \A i \in DOMAIN neurons :
                  /\ neurons'[i].is_firing =>
                         Abs(weight_norm(neurons'[i].dendritoma.weights) - SCALE)
                             <= norm_tolerance
                  /\ \A j \in DOMAIN neurons :
                         (/\ neurons[j].neuron_type = "Inhibitory"
                          /\ neurons[j].is_firing
                          /\ connectivity_matrix[i][j] = 1) =>
                             integrate(neurons[i].dendritoma, gathered_inputs'[i])
                                 < integrate(neurons[i].dendritoma,
                                             [gathered_inputs'[i] EXCEPT
                                                 ![j] = @ + SCALE])]_vars

\* an inhibitory neuron fired in the tick before, a neuron connected to it
\* has gathered its output of -1, and a neuron has learnt
C39_Witness ==
    /\ last_call.op = "update"
    /\ outcome = "ok"
    /\ \E i \in DOMAIN neurons, j \in DOMAIN neurons :
           /\ neurons[j].neuron_type = "Inhibitory"
           /\ current_time_step - 1 \in fired_at[j]
           /\ connectivity_matrix[i][j] = 1
           /\ gathered_inputs[i][j] =
                  -SCALE + (IF j \in DOMAIN last_call.external_inputs
                            THEN last_call.external_inputs[j] ELSE 0)
           /\ fired_at[i] # {}
           /\ Abs(weight_norm(neurons[i].dendritoma.weights) - SCALE)
                  <= norm_tolerance
====
